---------------------------- MODULE Spec2Model ----------------------------
(***************************************************************************)
(* A model of backend/rpicam_streaming.py: the RPiCamStreaming engine that *)
(* supervises one rpicam-vid process, splits its stdout into JPEG frames,  *)
(* tails its metadata file, decodes the MobileNet-SSD output tensor,       *)
(* debounces person detections and keeps a ring buffer of recent frames.   *)
(*                                                                         *)
(* Conventions.                                                            *)
(*  - Bytes are integers 0..255; byte strings are sequences of them.       *)
(*    Python offsets are 0-based and so are the offsets of Find and Slice. *)
(*  - Floats are fixed-point integers in units of 1/10000: 0.10 is 1000,   *)
(*    1.0 is 10000, the sentinel 100.0 is 1000000; a product of two such   *)
(*    values (an area) is in units of 1/100000000.  round(x, n) is         *)
(*    round-half-to-even on the decimal value.                             *)
(*  - time.time() is the variable now, in ticks of 1/TicksPerSecond s.     *)
(*  - Python lists that are shared by reference (the deque, the published  *)
(*    detection list, lists handed to callers) live in heap, addressed by  *)
(*    object id, so that aliasing and copying are different things.        *)
(*  - Threads: the two worker loops started by the n-th successful spawn   *)
(*    are "generation" n; caller threads are the elements of Callers.      *)
(***************************************************************************)
EXTENDS Integers, Sequences, FiniteSets, TLC

(***************************************************************************)
(* Bounds of the model (not program constants).                            *)
(***************************************************************************)
\* deque(maxlen=4500) at rpicam_streaming.py:70, scaled down
FrameBufferMaxlen == 3
\* the size of read(4096) at rpicam_streaming.py:182, scaled down
MaxChunk == 5
\* ticks of the clock per second
TicksPerSecond == 2
\* latest clock value reached
MaxNow == 3
\* largest `seconds` argument of get_recent_frames
MaxSeconds == 1
\* number of metadata lines the capture process appends in one run
MaxRecords == 7
\* longest JPEG frame (bytes) drawn for the splitter
MaxFrameLen == 6
\* longest drawn stdout stream (bytes)
MaxStreamLen == 10
\* the age the ring buffer is meant to cover ("last 5 minutes" at
\* rpicam_streaming.py:69, 300 s), in seconds, scaled down
MaxAgeSeconds == 1
\* markers and stray bytes in the arbitrary byte string the capture process
\* writes to stdout
MaxTokens == 5
\* calls of frames_to_mp4 that reach the encoder
MaxEncodes == 2
\* frames handed to frames_to_mp4
MaxEncodeFrames == 3

(***************************************************************************)
(* Program constants.                                                      *)
(***************************************************************************)
NUM_DETECTIONS == 100
BBOX_START == 0
CONF_START == NUM_DETECTIONS * 4
CLASS_START == CONF_START + NUM_DETECTIONS
\* len(tensor) < 600
MinTensorLen == 600
\* MIN_CONFIDENCE = 0.10
MIN_CONFIDENCE == 1000
\* class_val == 100.0
Sentinel == 1000000
\* 0 <= x <= 1
One == 10000
\* width < 0.05
MinWidth == 500
\* height < 0.20
MinHeight == 2000
\* area < 0.04   (units of 1/100000000)
MinArea == 4000000
\* round(confidence, 2): multiples of 0.01
ConfQuantum == 100
\* round(x, 3): multiples of 0.001
BoxQuantum == 10
\* deque(maxlen=5)
HistoryMaxlen == 5
\* self._min_consecutive_frames = 3
min_consecutive_frames == 3

(***************************************************************************)
(* Small helpers.                                                          *)
(***************************************************************************)
Min(S) == CHOOSE x \in S : \A y \in S : x <= y

Max(S) == CHOOSE x \in S : \A y \in S : x >= y

Range(s) == {s[i] : i \in 1..Len(s)}

\* all sequences over S of length 0..n
SeqsUpTo(S, n) == UNION {[1..k -> S] : k \in 0..n}

\* the concatenation of a sequence of sequences
RECURSIVE Concat(_)
Concat(ss) == IF ss = <<>> THEN <<>> ELSE Head(ss) \o Concat(Tail(ss))

\* the last n elements of s (all of s when it is shorter)
LastN(s, n) == SubSeq(s, Max({1, Len(s) - n + 1}), Len(s))

(***************************************************************************)
(* bytes: find, in, slicing                                                *)
(***************************************************************************)
SOI == <<255, 216>>

EOI == <<255, 217>>

\* bytes.find(pat, start): 0-based offset of the first occurrence of pat at
\* or after start, -1 when there is none
Find(buf, pat, start) ==
    LET hits == {i \in start..(Len(buf) - Len(pat)) :
                    SubSeq(buf, i + 1, i + Len(pat)) = pat}
    IN  IF hits = {} THEN -1 ELSE Min(hits)

\* pat in buf
Contains(buf, pat) == Find(buf, pat, 0) # -1

\* buf[lo:hi] for 0 <= lo <= hi
Slice(buf, lo, hi) == SubSeq(buf, lo + 1, IF hi < Len(buf) THEN hi ELSE Len(buf))

\* buf[lo:]
SliceFrom(buf, lo) == SubSeq(buf, lo + 1, Len(buf))

(***************************************************************************)
(* One pass of the "Look for JPEG boundaries" loop body of                 *)
(* _read_mjpeg_stream on the local buffer.                                 *)
(***************************************************************************)
\* the while condition
ScanCond(buf) == Contains(buf, SOI) /\ Contains(buf, EOI)

ScanStart(buf) == Find(buf, SOI, 0)

\* an end offset taken from the last end marker of the buffer
ScanEnd_last(buf) ==
    Max({i \in 0..(Len(buf) - 2) : SubSeq(buf, i + 1, i + 2) = EOI} \cup {-1}) + 2

\* end = buffer.find(b"\\xff\\xd9", start) + 2
ScanEnd(buf) == Find(buf, EOI, ScanStart(buf)) + 2

\* a pass that slices whenever both markers are in the buffer
ScanEmits_nocheck(buf) == ScanCond(buf)

\* the loop extracts a frame in this pass (otherwise it leaves the loop)
ScanEmits(buf) == ScanCond(buf) /\ ScanEnd(buf) > ScanStart(buf)

ScanFrame(buf) == Slice(buf, ScanStart(buf), ScanEnd(buf))

\* a pass that leaves the buffer as it was
ScanRest_keep(buf) == buf

\* buffer = buffer[end:]
ScanRest(buf) == SliceFrom(buf, ScanEnd(buf))

(***************************************************************************)
(* Numbers: int(), round()                                                 *)
(***************************************************************************)
\* int(class_val): truncation toward zero
IntOf(v) == IF v >= 0 THEN v \div One ELSE -((-v) \div One)

\* round(v, n) where q is the quantum 10^-n: round half to even
RoundTo(v, q) ==
    LET lo == (v \div q) * q
        r  == v - lo
    IN  IF 2 * r < q THEN lo
        ELSE IF 2 * r > q THEN lo + q
        ELSE IF (lo \div q) % 2 = 0 THEN lo ELSE lo + q

(***************************************************************************)
(* The MobileNet-SSD tensor and its decoding (_extract_detections, the     *)
(* for loop).  A tensor is a function on 0..len-1 (the Python list).       *)
(***************************************************************************)
\* Python's None where a number is expected: an integer no tensor holds
None == -2000000000

\* tensor[i] if i < len(tensor) else None
At(tensor, len, i) == IF i < len THEN tensor[i] ELSE None

\* the slot's values as the loop reads them
SlotOf(tensor, len, i) ==
    [class_val  |-> At(tensor, len, CLASS_START + i),
     confidence |-> At(tensor, len, CONF_START + i),
     y1 |-> At(tensor, len, BBOX_START + i * 4),
     x1 |-> At(tensor, len, BBOX_START + i * 4 + 1),
     y2 |-> At(tensor, len, BBOX_START + i * 4 + 2),
     x2 |-> At(tensor, len, BBOX_START + i * 4 + 3)]

\* a loop that takes the sentinel for padding only when the slot's
\* confidence is below the threshold
SlotBreaks_lowconf(s) ==
    s.class_val = None \/ (s.class_val = Sentinel /\ s.confidence < MIN_CONFIDENCE)

\* 100.0 marks end of valid detections
SlotBreaks(s) == s.class_val = None \/ s.class_val = Sentinel

\* the confidence test and the bounding-box tests of the loop
SlotFilters(s) ==
    /\ s.confidence # None /\ ~(s.confidence < MIN_CONFIDENCE)
    /\ None \notin {s.x1, s.y1, s.x2, s.y2}
    /\ 0 <= s.x1 /\ s.x1 <= One /\ 0 <= s.y1 /\ s.y1 <= One
    /\ 0 <= s.x2 /\ s.x2 <= One /\ 0 <= s.y2 /\ s.y2 <= One
    /\ ~(s.x2 <= s.x1 \/ s.y2 <= s.y1)
    /\ ~(s.x2 - s.x1 < MinWidth \/ s.y2 - s.y1 < MinHeight)
    /\ ~((s.x2 - s.x1) * (s.y2 - s.y1) < MinArea)

\* a loop without the class test of lines 315-319
SlotPasses_anyclass(s) == SlotFilters(s)

\* the chain of tests with the confidence test left out
SlotPasses_noconf(s) ==
    /\ IntOf(s.class_val) = 0
    /\ None \notin {s.x1, s.y1, s.x2, s.y2}
    /\ 0 <= s.x1 /\ s.x1 <= One /\ 0 <= s.y1 /\ s.y1 <= One
    /\ 0 <= s.x2 /\ s.x2 <= One /\ 0 <= s.y2 /\ s.y2 <= One
    /\ ~(s.x2 <= s.x1 \/ s.y2 <= s.y1)
    /\ ~(s.x2 - s.x1 < MinWidth \/ s.y2 - s.y1 < MinHeight)
    /\ ~((s.x2 - s.x1) * (s.y2 - s.y1) < MinArea)

\* the chain of `continue` tests: TRUE when the slot is appended
SlotPasses(s) ==
    /\ IntOf(s.class_val) = 0
    /\ s.confidence # None /\ ~(s.confidence < MIN_CONFIDENCE)
    /\ None \notin {s.x1, s.y1, s.x2, s.y2}
    /\ 0 <= s.x1 /\ s.x1 <= One /\ 0 <= s.y1 /\ s.y1 <= One
    /\ 0 <= s.x2 /\ s.x2 <= One /\ 0 <= s.y2 /\ s.y2 <= One
    /\ ~(s.x2 <= s.x1 \/ s.y2 <= s.y1)
    /\ ~(s.x2 - s.x1 < MinWidth \/ s.y2 - s.y1 < MinHeight)
    /\ ~((s.x2 - s.x1) * (s.y2 - s.y1) < MinArea)

\* the dict appended to detections
DetectionOf(s) ==
    [class      |-> "person",
     class_id   |-> 0,
     confidence |-> RoundTo(s.confidence, ConfQuantum),
     bbox       |-> <<RoundTo(s.x1, BoxQuantum), RoundTo(s.y1, BoxQuantum),
                      RoundTo(s.x2, BoxQuantum), RoundTo(s.y2, BoxQuantum)>>]

RECURSIVE DecodeFrom(_, _, _, _)
DecodeFrom(tensor, len, i, acc) ==
    IF i >= NUM_DETECTIONS THEN acc
    ELSE LET s == SlotOf(tensor, len, i)
         IN  IF SlotBreaks(s) THEN acc
             ELSE DecodeFrom(tensor, len, i + 1,
                             IF SlotPasses(s) THEN Append(acc, DetectionOf(s)) ELSE acc)

\* the list `detections` at line 361
Decode(tensor, len) == DecodeFrom(tensor, len, 0, <<>>)

(***************************************************************************)
(* Identities.                                                             *)
(***************************************************************************)
\* capture processes / worker generations: the n-th Popen is process n
MaxSpawns == 2

Gens == 1..MaxSpawns

\* caller threads (request handlers) using the public methods
Callers == {1, 2}

\* object ids of the Python lists: the deque, the published list, one list
\* held by each caller, and one being built
Objs == 1..(3 + Cardinality(Callers))

\* self._frame_buffer: the deque made in __init__ and never rebound
frame_buffer == 1

(***************************************************************************)
(* State.                                                                  *)
(***************************************************************************)
VARIABLES
    \* RPiCamStreaming fields
    running,                    \* self._running
    process,                    \* self._process: 0 is None, else the process
    stream_thread,              \* self._stream_thread: 0 is None, else generation
    monitor_thread,             \* self._monitor_thread
    latest_detections,          \* self._latest_detections: object id of the list
    detection_history,          \* self._detection_history (deque of booleans)
    consecutive_person_frames,  \* self._consecutive_person_frames
    current_frame,              \* self._current_frame: <<>> is None
    heap,                       \* contents of the list objects
    \* operating system
    procState,                  \* per process: "unborn", "starting", "alive", "exited"
    pipe,                       \* per process: stdout bytes written and not yet read
    metadata_file,              \* [exists, owner, lines]
    signalled,                  \* per process: the signals sent to its group, in order
    now,                        \* time.time()
    \* _read_mjpeg_stream, per generation
    streamPc,                   \* "unborn", "check", "read", "scan", "append", "done",
                                \* "failed", "lock_frame", "store", "lock_buffer",
                                \* "append_locked"
    streamBuf,                  \* local buffer
    streamFrame,                \* local frame
    streamSrc,                  \* the process whose stdout the pending read is on
    \* _monitor_metadata, per generation
    monPc,                      \* "unborn", "poll", "extract", "done", "lock_detections",
                                \* "publish"
    last_position,              \* local last_position (in lines)
    pending,                    \* frame_data dicts of the content being parsed
    detected,                   \* local `detections` of _extract_detections
    \* caller threads
    cpc,                        \* "idle", "start_spawn", "stop_wait", "stop_finish", "grf_scan",
                                \* "call", "locked"
    cret,                       \* what the caller's last call returned
    clocal,                     \* locals of the call in progress
    \* frames_to_mp4 (video_utils.py)
    mp4Pc,                      \* "idle", "write", "encode", "stat"
    mp4Args,                    \* [frames, fps] of the call in progress
    mp4Ret,                     \* what the last call returned or raised
    tmpdir,                     \* [exists, files]: the temporary directory
    ffmpeg,                     \* [runs, outcome, input, fps]: the encoder's invocations
    output_file,                \* [exists, frames]: the file at output_path
    \* environment of a run
    budget,                     \* [spawns, frames, lines] the run may still use
    menu,                       \* names of the metadata lines the process may write
    drawn,                      \* the metadata line named "X"
    \* history (not program state)
    emitted,                    \* frames appended to the ring buffer, in order
    processed,                  \* one entry per record that reached the debouncer
    stream                      \* the JPEGs the capture process writes, in order

engineVars == <<running, process, stream_thread, monitor_thread>>

detVars == <<latest_detections, detection_history, consecutive_person_frames, processed>>

frameVars == <<current_frame, emitted>>

osVars == <<procState, pipe, metadata_file>>

streamVars == <<streamPc, streamBuf, streamFrame, streamSrc>>

monVars == <<monPc, last_position, pending, detected>>

callerVars == <<cpc, cret, clocal>>

envVars == <<budget, menu, drawn, stream>>

videoVars == <<mp4Pc, mp4Args, mp4Ret, tmpdir, ffmpeg, output_file>>

vars == <<engineVars, detVars, frameVars, heap, osVars, signalled, now, streamVars,
          monVars, callerVars, envVars, videoVars>>

(***************************************************************************)
(* List objects.                                                           *)
(***************************************************************************)
NoRet == [op |-> "none", kind |-> "none", ref |-> 0, bytes |-> <<>>, flag |-> FALSE]

NoLocal == [cutoff |-> 0, seconds |-> 0, calledAt |-> 0, target |-> 0, op |-> "none"]

\* the list objects callers hold
CallerRefs(cr) == {cr[c].ref : c \in {d \in Callers : cr[d].kind = "list"}}

\* reachable list objects
Live(ld, cr) == {frame_buffer, ld} \cup CallerRefs(cr)

\* a fresh object: not reachable now
NewObj == Min(Objs \ Live(latest_detections, cret))

\* garbage collection: unreachable objects hold nothing
Collect(h, live) == [o \in Objs |-> IF o \in live THEN h[o] ELSE <<>>]

\* an append that never evicts
DequeAppend_unbounded(d, x, maxlen) == Append(d, x)

\* an append at the left end (appendleft)
DequeAppend_left(d, x, maxlen) ==
    IF Len(d) >= maxlen THEN <<x>> \o SubSeq(d, 1, Len(d) - 1) ELSE <<x>> \o d

\* deque.append with maxlen
DequeAppend(d, x, maxlen) ==
    IF Len(d) >= maxlen THEN Append(Tail(d), x) ELSE Append(d, x)

(***************************************************************************)
(* The metadata file.  A line is [kind, slots, len]:                       *)
(*   kind "dict": a JSON object with "CnnOutputTensor", a list of len      *)
(*        numbers whose first slots are `slots` (<<y1,x1,y2,x2,conf,class>>*)
(*        each), padded with the sentinel class 100.0 and zeros;           *)
(*   kind "notensor": a JSON object without "CnnOutputTensor";             *)
(*   kind "bracket": the line "[" or "]";                                  *)
(*   kind "bad": text json.loads rejects.                                  *)
(***************************************************************************)
Line(kind, slots, len) == [kind |-> kind, slots |-> slots, len |-> len]

NoFile == [exists |-> FALSE, owner |-> 0, lines |-> <<>>]

\* json.loads(line)["CnnOutputTensor"] as a function on 0..len-1
Tensor(fd) ==
    [i \in 0..(fd.len - 1) |->
        LET n == Len(fd.slots)
        IN  IF i < CONF_START
            THEN IF (i \div 4) < n THEN fd.slots[(i \div 4) + 1][(i % 4) + 1] ELSE 0
            ELSE IF i < CLASS_START
            THEN IF i - CONF_START < n THEN fd.slots[i - CONF_START + 1][5] ELSE 0
            ELSE IF i < CLASS_START + NUM_DETECTIONS
            THEN IF i - CLASS_START < n THEN fd.slots[i - CLASS_START + 1][6] ELSE Sentinel
            ELSE 0]

\* Slots are <<y1, x1, y2, x2, conf, class>>.
\* a person, 0.3 wide and 0.5 high, confidence 0.5
SlotPersonA == <<1000, 1000, 6000, 4000, 5000, 0>>

\* another person, confidence 0.9
SlotPersonB == <<2000, 5000, 9000, 9000, 9000, 0>>

\* a person-class box too narrow to qualify (width 0.04)
SlotNarrow == <<1000, 1000, 6000, 1400, 9000, 0>>

\* a bicycle (class 1.0)
SlotBicycle == <<1000, 1000, 6000, 4000, 9000, 10000>>

\* The text of line "A" written in two pieces: PartHead is its beginning,
\* without a newline, and PartTail the rest with the newline.  Neither piece
\* is a JSON document: the first lacks the closing brace of the object, the
\* second begins after its opening brace.
PartHead == "A_head"

PartTail == "A_tail"

\* The file and the monitor hold lines by name: "A", "B" and "N" are fixed
\* lines, "X" is the line drawn for the run.
LineOf(name) ==
    CASE name = "A" -> Line("dict", <<SlotPersonA>>, MinTensorLen)
      [] name = "B" -> Line("dict", <<SlotBicycle, SlotPersonB, SlotPersonA>>, MinTensorLen)
      [] name = "N" -> Line("dict", <<SlotNarrow, SlotBicycle>>, MinTensorLen)
      [] name \in {PartHead, PartTail} -> Line("bad", <<>>, 0)
      [] OTHER -> drawn

\* content.strip().split('\n'): the lines of what one read() returned.  The
\* two pieces of a line are one line when the same read returned both.
RECURSIVE SplitLines(_)
SplitLines(content) ==
    IF content = <<>> THEN <<>>
    ELSE IF Len(content) >= 2 /\ content[1] = PartHead /\ content[2] = PartTail
    THEN <<"A">> \o SplitLines(Tail(Tail(content)))
    ELSE <<Head(content)>> \o SplitLines(Tail(content))

\* a parser that gives up on the content at its first undecodable line
RECURSIVE ParseContent_abort(_)
ParseContent_abort(content) ==
    IF content = <<>> \/ LineOf(Head(content)).kind = "bad" THEN <<>>
    ELSE IF LineOf(Head(content)).kind = "bracket" THEN ParseContent_abort(Tail(content))
    ELSE <<Head(content)>> \o ParseContent_abort(Tail(content))

\* _parse_metadata_content: the frame_data dicts, in order, that are handed
\* to _extract_detections ("[", "]" and undecodable lines are skipped)
ParseContent(content) ==
    SelectSeq(SplitLines(content), LAMBDA l : LineOf(l).kind \in {"dict", "notensor"})

\* only the test for the field, without the test of the tensor's length
HasTensor_anylength(fd) == fd.kind = "dict"

\* the early returns of _extract_detections
HasTensor(fd) == fd.kind = "dict" /\ ~(fd.len = 0 \/ fd.len < MinTensorLen)

\* a decoder that consults the debounce counter
Detections_stateful(fd) ==
    IF consecutive_person_frames >= min_consecutive_frames
    THEN Decode(Tensor(fd), fd.len) \o Decode(Tensor(fd), fd.len)
    ELSE Decode(Tensor(fd), fd.len)

\* the list `detections` built from frame_data
Detections(fd) == Decode(Tensor(fd), fd.len)

(***************************************************************************)
(* The capture process (rpicam-vid).                                       *)
(***************************************************************************)
Spawned(p) == procState[p] \in {"starting", "alive"}

\* a JPEG with payload byte k: FF D8 k FF D9
FrameNo(k) == <<255, 216, k, 255, 217>>

\* the JPEG the process writes next
NextFrame == stream[Len(stream) - budget.frames + 1]

\* the process writes its next JPEG to stdout
ProcWrite(p) ==
    /\ Spawned(p)
    /\ budget.frames > 0
    /\ pipe' = [pipe EXCEPT ![p] = @ \o NextFrame]
    /\ budget' = [budget EXCEPT !.frames = @ - 1]
    /\ UNCHANGED <<engineVars, detVars, frameVars, heap, procState, metadata_file, now, signalled, videoVars,
                   streamVars, monVars, callerVars, menu, drawn, stream>>

\* the process creates its metadata file (--metadata) once the firmware is loaded
ProcOpenFile(p) ==
    /\ procState[p] = "starting"
    /\ procState' = [procState EXCEPT ![p] = "alive"]
    /\ metadata_file' = [exists |-> TRUE, owner |-> p, lines |-> <<>>]
    /\ UNCHANGED <<engineVars, detVars, frameVars, heap, pipe, now, signalled, videoVars, streamVars, monVars,
                   callerVars, envVars>>

\* the file ends in the middle of a line
Unfinished(lines) == lines # <<>> /\ lines[Len(lines)] = PartHead

\* the process appends one line to its metadata file
ProcAppend(p, line) ==
    /\ procState[p] = "alive"
    /\ metadata_file.exists /\ metadata_file.owner = p
    /\ budget.lines > 0
    /\ ~Unfinished(metadata_file.lines)
    /\ metadata_file' = [metadata_file EXCEPT !.lines = Append(@, line)]
    /\ budget' = [budget EXCEPT !.lines = @ - 1]
    /\ UNCHANGED <<engineVars, detVars, frameVars, heap, procState, pipe, now, signalled, videoVars, streamVars,
                   monVars, callerVars, menu, drawn, stream>>

\* the process exits on its own
ProcExit(p) ==
    /\ Spawned(p)
    /\ procState' = [procState EXCEPT ![p] = "exited"]
    /\ UNCHANGED <<engineVars, detVars, frameVars, heap, pipe, metadata_file, now, signalled, videoVars,
                   streamVars, monVars, callerVars, envVars>>

\* the process handles SIGTERM: it exits
ProcTerminate(p) ==
    /\ Spawned(p)
    /\ signalled[p] # <<>>
    /\ procState' = [procState EXCEPT ![p] = "exited"]
    /\ UNCHANGED <<engineVars, detVars, frameVars, heap, pipe, metadata_file, signalled,
                   now, videoVars, streamVars, monVars, callerVars, envVars>>

\* time passes
Tick ==
    /\ now < MaxNow
    /\ now' = now + 1
    /\ UNCHANGED <<signalled, videoVars, engineVars, detVars, frameVars, heap, osVars, streamVars, monVars,
                   callerVars, envVars>>

(***************************************************************************)
(* _read_mjpeg_stream, generation g.                                       *)
(***************************************************************************)
\* while self._running and self._process:
FrameLoopCheck(g) ==
    /\ streamPc[g] = "check"
    /\ IF running /\ process # 0
       THEN /\ streamPc' = [streamPc EXCEPT ![g] = "read"]
            /\ streamSrc' = [streamSrc EXCEPT ![g] = process]
       ELSE /\ streamPc' = [streamPc EXCEPT ![g] = "done"]
            /\ UNCHANGED streamSrc
    /\ UNCHANGED <<engineVars, detVars, frameVars, heap, osVars, now, signalled, videoVars, streamBuf,
                   streamFrame, monVars, callerVars, envVars>>

\* chunk = self._process.stdout.read(4096); buffer += chunk.  stdout is a
\* buffered reader: the read returns when MaxChunk bytes are there, or with
\* the bytes that are left when the stream has ended
FrameLoopRead(g) ==
    /\ streamPc[g] = "read"
    /\ Len(pipe[streamSrc[g]]) > 0
    /\ Len(pipe[streamSrc[g]]) >= MaxChunk \/ procState[streamSrc[g]] = "exited"
    /\ LET k == Min({MaxChunk, Len(pipe[streamSrc[g]])})
       IN  /\ streamBuf' = [streamBuf EXCEPT ![g] = @ \o SubSeq(pipe[streamSrc[g]], 1, k)]
           /\ pipe' = [pipe EXCEPT ![streamSrc[g]] = SubSeq(@, k + 1, Len(@))]
    /\ streamPc' = [streamPc EXCEPT ![g] = "scan"]
    /\ UNCHANGED <<engineVars, detVars, frameVars, heap, procState, metadata_file, now, signalled, videoVars,
                   streamFrame, streamSrc, monVars, callerVars, envVars>>

\* the read returns b"" (end of file): break
FrameLoopEof(g) ==
    /\ streamPc[g] = "read"
    /\ procState[streamSrc[g]] = "exited" /\ pipe[streamSrc[g]] = <<>>
    /\ streamPc' = [streamPc EXCEPT ![g] = "done"]
    /\ UNCHANGED <<engineVars, detVars, frameVars, heap, osVars, now, signalled, videoVars, streamBuf,
                   streamFrame, streamSrc, monVars, callerVars, envVars>>

\* lines 207-210: the read raises (an I/O error on the pipe); the handler
\* prints and breaks, and the thread ends
FrameLoopReadError(g) ==
    /\ streamPc[g] = "read"
    /\ streamPc' = [streamPc EXCEPT ![g] = "failed"]
    /\ UNCHANGED <<engineVars, detVars, frameVars, heap, osVars, signalled, now, videoVars,
                   streamBuf, streamFrame, streamSrc, monVars, callerVars, envVars>>

\* one pass of the boundary loop: slice a frame out and store it as the
\* current frame (under _frame_lock), or leave the loop
FrameLoopScan(g) ==
    /\ streamPc[g] = "scan"
    /\ IF ScanEmits(streamBuf[g])
       THEN /\ streamFrame' = [streamFrame EXCEPT ![g] = ScanFrame(streamBuf[g])]
            /\ streamBuf' = [streamBuf EXCEPT ![g] = ScanRest(@)]
            /\ current_frame' = ScanFrame(streamBuf[g])
            /\ streamPc' = [streamPc EXCEPT ![g] = "append"]
       ELSE /\ streamPc' = [streamPc EXCEPT ![g] = "check"]
            /\ UNCHANGED <<streamFrame, streamBuf, current_frame>>
    /\ UNCHANGED <<engineVars, detVars, emitted, heap, osVars, now, signalled, videoVars, streamSrc, monVars,
                   callerVars, envVars>>

\* self._frame_buffer.append((time.time(), frame)) under _buffer_lock
FrameLoopAppend(g) ==
    /\ streamPc[g] = "append"
    /\ heap' = [heap EXCEPT ![frame_buffer] =
                    DequeAppend(@, <<now, streamFrame[g]>>, FrameBufferMaxlen)]
    /\ emitted' = Append(emitted, streamFrame[g])
    /\ streamFrame' = [streamFrame EXCEPT ![g] = <<>>]
    /\ streamPc' = [streamPc EXCEPT ![g] = "scan"]
    /\ UNCHANGED <<engineVars, detVars, current_frame, osVars, now, signalled, videoVars, streamBuf, streamSrc,
                   monVars, callerVars, envVars>>


\* the process has written the beginning of a line and not yet the rest
\* (its output buffer was flushed in the middle of the line)
ProcAppendHead(p) ==
    /\ procState[p] = "alive"
    /\ metadata_file.exists /\ metadata_file.owner = p
    /\ budget.lines > 0
    /\ "A" \in menu
    /\ ~Unfinished(metadata_file.lines)
    /\ metadata_file' = [metadata_file EXCEPT !.lines = Append(@, PartHead)]
    /\ budget' = [budget EXCEPT !.lines = @ - 1]
    /\ UNCHANGED <<engineVars, detVars, frameVars, heap, procState, pipe, now, signalled, videoVars, streamVars,
                   monVars, callerVars, menu, drawn, stream>>

\* the process writes the rest of the line it began
ProcAppendTail(p) ==
    /\ procState[p] = "alive"
    /\ metadata_file.exists /\ metadata_file.owner = p
    /\ Unfinished(metadata_file.lines)
    /\ metadata_file' = [metadata_file EXCEPT !.lines = Append(@, PartTail)]
    /\ UNCHANGED <<engineVars, detVars, frameVars, heap, procState, pipe, now, signalled, videoVars, streamVars,
                   monVars, callerVars, envVars>>

(***************************************************************************)
(* _monitor_metadata, generation g.                                        *)
(***************************************************************************)
\* the loop test fails: the monitor stops
MonitorExit(g) ==
    /\ monPc[g] = "poll"
    /\ ~running
    /\ monPc' = [monPc EXCEPT ![g] = "done"]
    /\ UNCHANGED <<engineVars, detVars, frameVars, heap, osVars, now, signalled, videoVars, streamVars,
                   last_position, pending, detected, callerVars, envVars>>

\* a poll that reads the file from its beginning
NewContent_fromstart(lines, pos) == lines

\* lines 233-234: f.seek(last_position); new_content = f.read()
NewContent(lines, pos) == SubSeq(lines, pos + 1, Len(lines))

\* one poll: seek(last_position), read(), tell(), then split into lines
MonitorPoll(g) ==
    /\ monPc[g] = "poll"
    /\ running
    /\ metadata_file.exists
    /\ LET lines == metadata_file.lines
           new   == NewContent(lines, last_position[g])
       IN  /\ last_position' = [last_position EXCEPT ![g] =
                                    IF @ > Len(lines) THEN @ ELSE Len(lines)]
           /\ pending' = [pending EXCEPT ![g] = ParseContent(new)]
           /\ monPc' = [monPc EXCEPT ![g] =
                            IF ParseContent(new) # <<>> THEN "extract" ELSE "poll"]
    /\ UNCHANGED <<detected, engineVars, detVars, frameVars, heap, osVars, now, signalled,
                   videoVars, streamVars,
                   callerVars, envVars>>

\* a counter that a record without a person leaves alone
NextCount_noreset(has_person, count) == IF has_person THEN count + 1 ELSE count

\* a counter that a record without a person lowers by one
NextCount_decay(has_person, count) ==
    IF has_person THEN count + 1 ELSE IF count > 0 THEN count - 1 ELSE 0

\* lines 365-368: the consecutive counter after a record
NextCount(has_person, count) == IF has_person THEN count + 1 ELSE 0

\* publication without the debounce test
PublishedList_always(count, detections) == detections

\* publication one record late
PublishedList_late(count, detections) ==
    IF count > min_consecutive_frames THEN detections ELSE <<>>

\* lines 376-381: what is bound to self._latest_detections
PublishedList(count, detections) ==
    IF count >= min_consecutive_frames THEN detections ELSE <<>>

\* _extract_detections(frame_data): decode, debounce, publish; frame_data is
\* the line called name.  One step: the history, the counter and the slot
\* are written by the monitor thread only, and callers read the slot under
\* _detection_lock, so with one monitor thread no other thread can observe
\* or disturb the statements in between.
ExtractDetections(name) ==
    IF ~HasTensor(LineOf(name))
    THEN UNCHANGED <<detVars, heap>>
    ELSE LET detections == Detections(LineOf(name))
             has_person == Len(detections) > 0
             count      == NextCount(has_person, consecutive_person_frames)
             published  == PublishedList(count, detections)
             obj        == NewObj
         IN  /\ detection_history' = DequeAppend(detection_history, has_person, HistoryMaxlen)
             /\ consecutive_person_frames' = count
             /\ latest_detections' = obj
             /\ heap' = Collect([heap EXCEPT ![obj] = published], Live(obj, cret))
             /\ processed' = Append(processed,
                    [line |-> name, flag |-> has_person, published |-> published])

\* the next frame_data of the content being parsed goes through _extract_detections
MonitorExtract(g) ==
    /\ monPc[g] = "extract"
    /\ ExtractDetections(Head(pending[g]))
    /\ pending' = [pending EXCEPT ![g] = Tail(@)]
    /\ monPc' = [monPc EXCEPT ![g] = IF Tail(pending[g]) # <<>> THEN "extract" ELSE "poll"]
    /\ UNCHANGED <<engineVars, frameVars, osVars, now, signalled, videoVars, streamVars,
                   last_position, detected, callerVars, envVars>>

(***************************************************************************)
(* Public methods, called by caller thread c.                              *)
(***************************************************************************)
Ret(op, kind) == [NoRet EXCEPT !.op = op, !.kind = kind]

\* what a call leaves when it returns a value that is no list
Return(c, r) ==
    /\ cret' = [cret EXCEPT ![c] = r]
    /\ heap' = Collect(heap, Live(latest_detections, [cret EXCEPT ![c] = r]))

\* a start() without the running test
StartBegin_unguarded(c) ==
    /\ cpc[c] = "idle"
    /\ budget.spawns > 0
    /\ budget' = [budget EXCEPT !.spawns = @ - 1]
    /\ metadata_file' = NoFile
    /\ cpc' = [cpc EXCEPT ![c] = "start_spawn"]
    /\ UNCHANGED <<cret, heap>>
    /\ UNCHANGED <<engineVars, detVars, frameVars, procState, pipe, now, signalled, videoVars, streamVars,
                   monVars, clocal, menu, drawn, stream>>

\* start(), lines 77-83: the running test, then the old metadata file is removed
StartBegin(c) ==
    /\ cpc[c] = "idle"
    /\ IF running
       THEN /\ Return(c, Ret("start", "already_running"))
            /\ UNCHANGED <<cpc, metadata_file, budget>>
       ELSE /\ budget.spawns > 0
            /\ budget' = [budget EXCEPT !.spawns = @ - 1]
            /\ metadata_file' = NoFile
            /\ cpc' = [cpc EXCEPT ![c] = "start_spawn"]
            /\ UNCHANGED <<cret, heap>>
    /\ UNCHANGED <<engineVars, detVars, frameVars, procState, pipe, now, signalled, videoVars, streamVars,
                   monVars, clocal, menu, drawn, stream>>

\* start(), lines 107-134: Popen succeeds, both worker threads are started
StartSpawn(c) ==
    /\ cpc[c] = "start_spawn"
    /\ LET n == Cardinality({p \in Gens : procState[p] # "unborn"}) + 1
       IN  /\ n \in Gens
           /\ process' = n
           /\ procState' = [procState EXCEPT ![n] = "starting"]
           /\ running' = TRUE
           /\ stream_thread' = n
           /\ streamPc' = [streamPc EXCEPT ![n] = "check"]
           /\ monitor_thread' = n
           /\ monPc' = [monPc EXCEPT ![n] = "poll"]
    /\ cpc' = [cpc EXCEPT ![c] = "idle"]
    /\ Return(c, Ret("start", "started"))
    /\ UNCHANGED <<detVars, frameVars, pipe, metadata_file, now, signalled, videoVars, streamBuf, streamFrame,
                   streamSrc, last_position, pending, detected, clocal, envVars>>

\* a failed start() that leaves the flag set
StartFail_flagset(c) ==
    /\ cpc[c] = "start_spawn"
    /\ running' = TRUE
    /\ cpc' = [cpc EXCEPT ![c] = "idle"]
    /\ Return(c, Ret("start", "raised"))
    /\ UNCHANGED <<process, stream_thread, monitor_thread, detVars, frameVars, osVars, now,
                   signalled, videoVars, streamVars, monVars, clocal, envVars>>

\* start(), lines 137-140: Popen raises; the exception is re-raised
StartFail(c) ==
    /\ cpc[c] = "start_spawn"
    /\ running' = FALSE
    /\ cpc' = [cpc EXCEPT ![c] = "idle"]
    /\ Return(c, Ret("start", "raised"))
    /\ UNCHANGED <<process, stream_thread, monitor_thread, detVars, frameVars, osVars, now, signalled, videoVars,
                   streamVars, monVars, clocal, envVars>>

\* a stop() that starts with the forced kill
StopSignal_kill == "SIGKILL"

\* line 153: the signal stop() sends first
StopSignal == "SIGTERM"

\* a wait without a timeout: it never gives up
GraceElapses_never(p) == FALSE

\* line 154: wait(timeout=5) raises TimeoutExpired when the process is still
\* there 5 s later
GraceElapses(p) == procState[p] # "exited"

\* stop(), lines 144-153: the running test, the flag, SIGTERM to the process group
StopBegin(c) ==
    /\ cpc[c] = "idle"
    /\ IF ~running
       THEN /\ Return(c, Ret("stop", "not_running"))
            /\ UNCHANGED <<running, cpc, clocal, signalled>>
       ELSE /\ running' = FALSE
            /\ IF process # 0 /\ procState[process] # "exited"
               THEN /\ signalled' = [signalled EXCEPT ![process] = Append(@, StopSignal)]
                    /\ cpc' = [cpc EXCEPT ![c] = "stop_wait"]
               ELSE /\ cpc' = [cpc EXCEPT ![c] = "stop_finish"]
                    /\ UNCHANGED signalled
            /\ clocal' = [clocal EXCEPT ![c] = [NoLocal EXCEPT !.target = process]]
            /\ UNCHANGED <<cret, heap>>
    /\ UNCHANGED <<process, stream_thread, monitor_thread, detVars, frameVars, osVars, now,
                   videoVars, streamVars, monVars, envVars>>

\* stop(), line 154: wait(timeout=5) returns, the process has exited
StopWaitExited(c) ==
    /\ cpc[c] = "stop_wait"
    /\ procState[clocal[c].target] = "exited"
    /\ cpc' = [cpc EXCEPT ![c] = "stop_finish"]
    /\ UNCHANGED <<engineVars, detVars, frameVars, heap, osVars, signalled, now, videoVars,
                   streamVars, monVars, cret, clocal, envVars>>

\* stop(), lines 155-158: the grace period elapses; SIGKILL goes to the process
\* group of what self._process is by then, and that process is waited for
StopWaitKill(c) ==
    /\ cpc[c] = "stop_wait"
    /\ GraceElapses(clocal[c].target)
    /\ signalled' = [signalled EXCEPT ![process] = Append(@, "SIGKILL")]
    /\ procState' = [procState EXCEPT ![process] = "exited"]
    /\ cpc' = [cpc EXCEPT ![c] = "stop_finish"]
    /\ UNCHANGED <<engineVars, detVars, frameVars, heap, pipe, metadata_file, now,
                   videoVars, streamVars, monVars, cret, clocal, envVars>>

\* stop(), lines 163-172: the joins (each gives up after 2 s), the metadata
\* file is removed
StopFinish(c) ==
    /\ cpc[c] = "stop_finish"
    /\ metadata_file' = NoFile
    /\ cpc' = [cpc EXCEPT ![c] = "idle"]
    /\ clocal' = [clocal EXCEPT ![c] = NoLocal]
    /\ Return(c, Ret("stop", "stopped"))
    /\ UNCHANGED <<engineVars, detVars, frameVars, procState, pipe, now, signalled, videoVars, streamVars,
                   monVars, envVars>>

\* get_frame()
GetFrame(c) ==
    /\ cpc[c] = "idle"
    /\ Return(c, [Ret("get_frame", "bytes") EXCEPT !.bytes = current_frame])
    /\ UNCHANGED <<engineVars, detVars, frameVars, osVars, now, signalled, videoVars, streamVars, monVars,
                   cpc, clocal, envVars>>

\* no copy: the list object itself
CopyOf_alias(ref) == [obj |-> ref, elems |-> heap[ref]]

\* list.copy(): a new list object with the same elements
CopyOf(ref) == [obj |-> NewObj, elems |-> heap[ref]]

\* get_detections(): self._latest_detections.copy() under _detection_lock
GetDetections(c) ==
    /\ cpc[c] = "idle"
    /\ LET copy == CopyOf(latest_detections)
           r    == [Ret("get_detections", "list") EXCEPT !.ref = copy.obj]
       IN  /\ cret' = [cret EXCEPT ![c] = r]
           /\ heap' = Collect([heap EXCEPT ![copy.obj] = copy.elems],
                              Live(latest_detections, [cret EXCEPT ![c] = r]))
    /\ UNCHANGED <<engineVars, detVars, frameVars, osVars, now, signalled, videoVars, streamVars, monVars,
                   cpc, clocal, envVars>>

\* int(timestamp)
IntTime(ts) == ts \div TicksPerSecond

\* a scan that leaves out the frames stamped exactly at the cutoff
RecentFrames_strict(buf, cutoff) ==
    LET kept == SelectSeq(buf, LAMBDA e : e[1] > cutoff)
    IN  [i \in 1..Len(kept) |-> <<kept[i][1] \div TicksPerSecond, kept[i][2]>>]

\* the scan of get_recent_frames over the deque contents
RecentFrames(buf, cutoff) ==
    LET kept == SelectSeq(buf, LAMBDA e : e[1] >= cutoff)
    IN  [i \in 1..Len(kept) |-> <<IntTime(kept[i][1]), kept[i][2]>>]

\* get_recent_frames(seconds), line 398: cutoff_time = time.time() - seconds
GetRecentFramesBegin(c, seconds) ==
    /\ cpc[c] = "idle"
    /\ clocal' = [clocal EXCEPT ![c] = [NoLocal EXCEPT
                                          !.cutoff = now - seconds * TicksPerSecond,
                                          !.seconds = seconds, !.calledAt = now]]
    /\ cpc' = [cpc EXCEPT ![c] = "grf_scan"]
    /\ UNCHANGED <<engineVars, detVars, frameVars, heap, osVars, now, signalled, videoVars, streamVars, monVars,
                   cret, envVars>>

\* get_recent_frames, lines 399-407: the scan under _buffer_lock, the return
GetRecentFramesScan(c) ==
    /\ cpc[c] = "grf_scan"
    /\ LET obj == NewObj
           r   == [Ret("get_recent_frames", "list") EXCEPT !.ref = obj]
       IN  /\ cret' = [cret EXCEPT ![c] = r]
           /\ heap' = Collect([heap EXCEPT ![obj] =
                                   RecentFrames(heap[frame_buffer], clocal[c].cutoff)],
                              Live(latest_detections, [cret EXCEPT ![c] = r]))
    /\ cpc' = [cpc EXCEPT ![c] = "idle"]
    /\ clocal' = [clocal EXCEPT ![c] = NoLocal]
    /\ UNCHANGED <<engineVars, detVars, frameVars, osVars, now, signalled, videoVars, streamVars, monVars,
                   envVars>>

\* a test of the handle only
Alive_unchecked(p) == p # 0

\* self._process is not None and self._process.poll() is None
Alive(p) == p # 0 /\ procState[p] # "exited"

\* is_running()
IsRunning(c) ==
    /\ cpc[c] = "idle"
    /\ Return(c, [Ret("is_running", "bool") EXCEPT !.flag = (running /\ Alive(process))])
    /\ UNCHANGED <<engineVars, detVars, frameVars, osVars, now, signalled, videoVars, streamVars, monVars,
                   cpc, clocal, envVars>>

\* the caller changes the list it was handed: del lst[0]
CallerMutate(c) ==
    /\ cpc[c] = "idle"
    /\ cret[c].kind = "list"
    /\ heap[cret[c].ref] # <<>>
    /\ heap' = [heap EXCEPT ![cret[c].ref] = Tail(@)]
    /\ UNCHANGED <<engineVars, detVars, frameVars, osVars, now, signalled, videoVars, streamVars, monVars,
                   callerVars, envVars>>

(***************************************************************************)
(* The three locks.  In the actions above a critical section is one step.  *)
(* The actions below take the same sections apart into the acquisition of  *)
(* the lock and the body, which releases it, so that a thread can be seen   *)
(* holding a lock and another one waiting for it.  Who holds a lock        *)
(* follows from where the threads are.                                     *)
(***************************************************************************)
\* the lock a getter takes: _frame_lock, _detection_lock or _buffer_lock
LockOf(op) ==
    CASE op = "get_frame" -> "frame"
      [] op = "get_detections" -> "detection"
      [] OTHER -> "buffer"

\* a frame loop that takes _frame_lock around its whole iteration
StreamHolds_iteration(lock, pc) ==
    \/ lock = "frame" /\ pc \in {"read", "scan", "store"}
    \/ lock = "buffer" /\ pc = "append_locked"

\* a frame loop that appends to the ring buffer inside `with _frame_lock`
StreamHolds_nested(lock, pc) ==
    \/ lock = "frame" /\ pc \in {"store", "lock_buffer", "append_locked"}
    \/ lock = "buffer" /\ pc = "append_locked"

\* lines 198-199 and 202-203: the frame loop holds _frame_lock for the store
\* of the frame and _buffer_lock for the append
StreamHolds(lock, pc) ==
    \/ lock = "frame" /\ pc = "store"
    \/ lock = "buffer" /\ pc = "append_locked"

\* the threads inside `with lock:`
Holders(lock) ==
    {<<"caller", c>> : c \in {d \in Callers :
                                 cpc[d] = "locked" /\ LockOf(clocal[d].op) = lock}}
    \cup {<<"stream", g>> : g \in {h \in Gens : StreamHolds(lock, streamPc[h])}}
    \cup {<<"monitor", g>> : g \in {h \in Gens : lock = "detection" /\ monPc[h] = "publish"}}

Free(lock) == Holders(lock) = {}

\* lines 189-195: the boundary search and the slice
FrameLoopSlice(g) ==
    /\ streamPc[g] = "scan"
    /\ IF ScanEmits(streamBuf[g])
       THEN /\ streamFrame' = [streamFrame EXCEPT ![g] = ScanFrame(streamBuf[g])]
            /\ streamBuf' = [streamBuf EXCEPT ![g] = ScanRest(@)]
            /\ streamPc' = [streamPc EXCEPT ![g] = "lock_frame"]
       ELSE /\ streamPc' = [streamPc EXCEPT ![g] = "check"]
            /\ UNCHANGED <<streamFrame, streamBuf>>
    /\ UNCHANGED <<engineVars, detVars, frameVars, heap, osVars, signalled, now, videoVars,
                   streamSrc, monVars, callerVars, envVars>>

\* line 198: with self._frame_lock
FrameLoopLockFrame(g) ==
    /\ streamPc[g] = "lock_frame"
    /\ Free("frame")
    /\ streamPc' = [streamPc EXCEPT ![g] = "store"]
    /\ UNCHANGED <<engineVars, detVars, frameVars, heap, osVars, signalled, now, videoVars,
                   streamBuf, streamFrame, streamSrc, monVars, callerVars, envVars>>

\* line 199: self._current_frame = frame, and the lock is released
FrameLoopStore(g) ==
    /\ streamPc[g] = "store"
    /\ current_frame' = streamFrame[g]
    /\ streamPc' = [streamPc EXCEPT ![g] = "lock_buffer"]
    /\ UNCHANGED <<engineVars, detVars, emitted, heap, osVars, signalled, now, videoVars,
                   streamBuf, streamFrame, streamSrc, monVars, callerVars, envVars>>

\* line 202: with self._buffer_lock
FrameLoopLockBuffer(g) ==
    /\ streamPc[g] = "lock_buffer"
    /\ Free("buffer")
    /\ streamPc' = [streamPc EXCEPT ![g] = "append_locked"]
    /\ UNCHANGED <<engineVars, detVars, frameVars, heap, osVars, signalled, now, videoVars,
                   streamBuf, streamFrame, streamSrc, monVars, callerVars, envVars>>

\* line 203: the append, and the lock is released
FrameLoopAppendLocked(g) ==
    /\ streamPc[g] = "append_locked"
    /\ heap' = [heap EXCEPT ![frame_buffer] =
                    DequeAppend(@, <<now, streamFrame[g]>>, FrameBufferMaxlen)]
    /\ emitted' = Append(emitted, streamFrame[g])
    /\ streamFrame' = [streamFrame EXCEPT ![g] = <<>>]
    /\ streamPc' = [streamPc EXCEPT ![g] = "scan"]
    /\ UNCHANGED <<engineVars, detVars, current_frame, osVars, signalled, now, videoVars,
                   streamBuf, streamSrc, monVars, callerVars, envVars>>

\* the next record after the one at the head of pending[g]
MonitorNext(g) == IF Tail(pending[g]) # <<>> THEN "extract" ELSE "poll"

\* _extract_detections, lines 270-373: the early returns, the decoding into
\* the local list, the history and the counter; no lock is held
MonitorDecode(g) ==
    /\ monPc[g] = "extract"
    /\ LET fd == LineOf(Head(pending[g]))
       IN  IF ~HasTensor(fd)
           THEN /\ pending' = [pending EXCEPT ![g] = Tail(@)]
                /\ monPc' = [monPc EXCEPT ![g] = MonitorNext(g)]
                /\ UNCHANGED <<detected, detection_history, consecutive_person_frames>>
           ELSE LET detections == Detections(fd)
                    has_person == Len(detections) > 0
                IN  /\ detected' = [detected EXCEPT ![g] = detections]
                    /\ detection_history' =
                           DequeAppend(detection_history, has_person, HistoryMaxlen)
                    /\ consecutive_person_frames' =
                           NextCount(has_person, consecutive_person_frames)
                    /\ monPc' = [monPc EXCEPT ![g] = "lock_detections"]
                    /\ UNCHANGED pending
    /\ UNCHANGED <<engineVars, latest_detections, processed, frameVars, heap, osVars,
                   signalled, now, videoVars, streamVars, last_position, callerVars, envVars>>

\* line 376: with self._detection_lock
MonitorLockDetections(g) ==
    /\ monPc[g] = "lock_detections"
    /\ Free("detection")
    /\ monPc' = [monPc EXCEPT ![g] = "publish"]
    /\ UNCHANGED <<engineVars, detVars, frameVars, heap, osVars, signalled, now, videoVars,
                   streamVars, last_position, pending, detected, callerVars, envVars>>

\* lines 377-381: the local list or a new empty list is bound to
\* self._latest_detections, and the lock is released
MonitorPublish(g) ==
    /\ monPc[g] = "publish"
    /\ LET published == PublishedList(consecutive_person_frames, detected[g])
           obj       == NewObj
       IN  /\ latest_detections' = obj
           /\ heap' = Collect([heap EXCEPT ![obj] = published], Live(obj, cret))
           /\ processed' = Append(processed,
                  [line |-> Head(pending[g]), flag |-> Len(detected[g]) > 0,
                   published |-> published])
    /\ detected' = [detected EXCEPT ![g] = <<>>]
    /\ pending' = [pending EXCEPT ![g] = Tail(@)]
    /\ monPc' = [monPc EXCEPT ![g] = MonitorNext(g)]
    /\ UNCHANGED <<engineVars, detection_history, consecutive_person_frames, frameVars,
                   osVars, signalled, now, videoVars, streamVars, last_position,
                   callerVars, envVars>>

\* a caller enters get_frame(), get_detections() or get_recent_frames(MaxSeconds)
\* (line 398: the cutoff is computed before the lock is taken)
GetterCall(c, op) ==
    /\ cpc[c] = "idle"
    /\ clocal' = [clocal EXCEPT ![c] = [NoLocal EXCEPT
                                          !.op = op,
                                          !.cutoff = now - MaxSeconds * TicksPerSecond,
                                          !.seconds = MaxSeconds, !.calledAt = now]]
    /\ cpc' = [cpc EXCEPT ![c] = "call"]
    /\ UNCHANGED <<engineVars, detVars, frameVars, heap, osVars, signalled, now, videoVars,
                   streamVars, monVars, cret, envVars>>

\* lines 388, 393, 399: with the getter's lock
GetterLock(c) ==
    /\ cpc[c] = "call"
    /\ Free(LockOf(clocal[c].op))
    /\ cpc' = [cpc EXCEPT ![c] = "locked"]
    /\ UNCHANGED <<engineVars, detVars, frameVars, heap, osVars, signalled, now, videoVars,
                   streamVars, monVars, cret, clocal, envVars>>

\* lines 389, 394, 400-407: the body of the getter; the lock is released and
\* the call returns
GetterReturn(c) ==
    /\ cpc[c] = "locked"
    /\ LET op    == clocal[c].op
           obj   == NewObj
           elems == IF op = "get_detections"
                    THEN CopyOf(latest_detections).elems
                    ELSE RecentFrames(heap[frame_buffer], clocal[c].cutoff)
           r     == IF op = "get_frame"
                    THEN [Ret(op, "bytes") EXCEPT !.bytes = current_frame]
                    ELSE [Ret(op, "list") EXCEPT !.ref = obj]
       IN  /\ cret' = [cret EXCEPT ![c] = r]
           /\ heap' = Collect(IF op = "get_frame" THEN heap
                              ELSE [heap EXCEPT ![obj] = elems],
                              Live(latest_detections, [cret EXCEPT ![c] = r]))
    /\ cpc' = [cpc EXCEPT ![c] = "idle"]
    /\ clocal' = [clocal EXCEPT ![c] = NoLocal]
    /\ UNCHANGED <<engineVars, detVars, frameVars, osVars, signalled, now, videoVars,
                   streamVars, monVars, envVars>>

(***************************************************************************)
(* frames_to_mp4(frames, output_path, fps) of video_utils.py, called by    *)
(* the replay handler.  The encoder (ffmpeg) is part of the environment:   *)
(* its outcome is "ok" (exit status 0), "failed" (another exit status) or  *)
(* "timeout" (still running after 30 s, killed by subprocess.run).         *)
(***************************************************************************)
NoMp4Ret == [kind |-> "none", duration |-> 0, frame_count |-> 0, file_size |-> 0]

NoDir == [exists |-> FALSE, files |-> <<>>]

NoOutput == [exists |-> FALSE, frames |-> <<>>, whole |-> FALSE]

NoEncoder == [runs |-> 0, outcome |-> "none", input |-> <<>>, fps |-> 0]

Outcomes == {"ok", "failed", "timeout"}

\* frames_to_mp4 raising the exception named kind
Raised(kind) == [NoMp4Ret EXCEPT !.kind = kind]

\* the files frame_00000.jpg, frame_00001.jpg, ... written to the directory
FrameFiles(frames) == [i \in 1..Len(frames) |-> frames[i][2]]

\* st_size of the output file: the model's encoder stores its input as it is
FileSize(f) == Len(Concat(f.frames))

\* round(frame_count / fps): halves go up
Duration_rounded(frame_count, fps) == (2 * frame_count + fps) \div (2 * fps)

\* int(frame_count / fps)
Duration(frame_count, fps) == frame_count \div fps

\* a run without check=True: only the timeout raises
EncodeRaises_nocheck(outcome) == outcome = "timeout"

\* subprocess.run(..., timeout=30, check=True) raises CalledProcessError on
\* a non-zero exit status and TimeoutExpired on a timeout
EncodeRaises(outcome) == outcome # "ok"

\* what a run of the encoder may leave at output_path: with -y it replaces
\* the file when it opens its output, and a run that is cut short may stop
\* before that or after any number of frames
OutputsAfter(outcome, files) ==
    IF outcome = "ok"
    THEN {[exists |-> TRUE, frames |-> files, whole |-> TRUE]}
    ELSE {output_file} \cup
         {[exists |-> TRUE, frames |-> SubSeq(files, 1, k), whole |-> FALSE] :
             k \in 0..(Len(files) - 1)}

\* lines 23-34: the empty list is rejected, else the frames are written to a
\* temporary directory as numbered JPEG files
FramesToMp4Begin(frames, fps) ==
    /\ mp4Pc = "idle"
    /\ ffmpeg.runs < MaxEncodes
    /\ mp4Args' = [frames |-> frames, fps |-> fps]
    /\ IF frames = <<>>
       THEN /\ mp4Ret' = Raised("ValueError")
            /\ UNCHANGED <<mp4Pc, tmpdir>>
       ELSE /\ mp4Ret' = NoMp4Ret
            /\ tmpdir' = [exists |-> TRUE, files |-> FrameFiles(frames)]
            /\ mp4Pc' = "encode"
    /\ UNCHANGED <<engineVars, detVars, frameVars, heap, osVars, signalled, now, streamVars,
                   monVars, callerVars, envVars, ffmpeg, output_file>>

\* lines 57-68 and the end of the with block: the encoder runs on the
\* directory, the directory is removed, a failed run becomes a RuntimeError
FramesToMp4Encode(outcome) ==
    /\ mp4Pc = "encode"
    /\ ffmpeg' = [runs |-> ffmpeg.runs + 1, outcome |-> outcome,
                  input |-> tmpdir.files, fps |-> mp4Args.fps]
    /\ output_file' \in OutputsAfter(outcome, tmpdir.files)
    /\ tmpdir' = NoDir
    /\ IF EncodeRaises(outcome)
       THEN /\ mp4Ret' = Raised("RuntimeError")
            /\ mp4Pc' = "idle"
       ELSE /\ mp4Pc' = "stat"
            /\ UNCHANGED mp4Ret
    /\ UNCHANGED <<engineVars, detVars, frameVars, heap, osVars, signalled, now, streamVars,
                   monVars, callerVars, envVars, mp4Args>>

\* lines 71-79: the size of the output file and the returned metadata
FramesToMp4Stat ==
    /\ mp4Pc = "stat"
    /\ mp4Ret' = [kind |-> "dict",
                  duration |-> Duration(Len(mp4Args.frames), mp4Args.fps),
                  frame_count |-> Len(mp4Args.frames),
                  file_size |-> FileSize(output_file)]
    /\ mp4Pc' = "idle"
    /\ UNCHANGED <<engineVars, detVars, frameVars, heap, osVars, signalled, now, streamVars,
                   monVars, callerVars, envVars, mp4Args, tmpdir, ffmpeg, output_file>>

\* no call of frames_to_mp4 yet
InitVideo ==
    /\ mp4Pc = "idle"
    /\ mp4Args = [frames |-> <<>>, fps |-> 0]
    /\ mp4Ret = NoMp4Ret
    /\ tmpdir = NoDir
    /\ ffmpeg = NoEncoder
    /\ output_file = NoOutput

(***************************************************************************)
(* The engine after __init__ (lines 48-71).                                *)
(***************************************************************************)
InitEngine ==
    /\ running = FALSE
    /\ process = 0
    /\ stream_thread = 0
    /\ monitor_thread = 0
    /\ latest_detections = 2
    /\ detection_history = <<>>
    /\ consecutive_person_frames = 0
    /\ current_frame = <<>>
    /\ heap = [o \in Objs |-> <<>>]
    /\ procState = [p \in Gens |-> "unborn"]
    /\ pipe = [p \in Gens |-> <<>>]
    /\ metadata_file = NoFile
    /\ signalled = [p \in Gens |-> <<>>]
    /\ now = 0
    /\ streamPc = [g \in Gens |-> "unborn"]
    /\ streamBuf = [g \in Gens |-> <<>>]
    /\ streamFrame = [g \in Gens |-> <<>>]
    /\ streamSrc = [g \in Gens |-> 0]
    /\ monPc = [g \in Gens |-> "unborn"]
    /\ last_position = [g \in Gens |-> 0]
    /\ pending = [g \in Gens |-> <<>>]
    /\ detected = [g \in Gens |-> <<>>]
    /\ cpc = [c \in Callers |-> "idle"]
    /\ cret = [c \in Callers |-> NoRet]
    /\ clocal = [c \in Callers |-> NoLocal]
    /\ emitted = <<>>
    /\ processed = <<>>

(***************************************************************************)
(* Environments.  Every specification starts from the engine after         *)
(* __init__ and differs in what the capture process is going to write.     *)
(***************************************************************************)
\* a line that is never written
NoLine == Line("bracket", <<>>, 0)

\* the JPEGs FrameNo(1), ..., FrameNo(n)
Numbered(n) == [k \in 1..n |-> FrameNo(k)]

(***************************************************************************)
(* SpecDebounce: the metadata side.  The process appends up to MaxRecords  *)
(* records, each with a person ("A") or without one ("N").                 *)
(***************************************************************************)
InitDebounce ==
    /\ InitEngine
    /\ InitVideo
    /\ budget = [spawns |-> 1, frames |-> 0, lines |-> MaxRecords]
    /\ menu = {"A", "N"}
    /\ drawn = NoLine
    /\ stream = <<>>

NextDebounce ==
    \/ StartBegin(1)
    \/ StartSpawn(1)
    \/ \E p \in Gens : ProcOpenFile(p)
    \/ \E p \in Gens : \E line \in menu : ProcAppend(p, line)
    \/ \E g \in Gens : MonitorPoll(g)
    \/ \E g \in Gens : MonitorExtract(g)
    \/ GetDetections(1)

SpecDebounce == InitDebounce /\ [][NextDebounce]_vars

(***************************************************************************)
(* SpecDecode: the decoder.  The process appends min_consecutive_frames    *)
(* copies of one record, whose first slot is drawn and whose second slot   *)
(* is a person.                                                            *)
(***************************************************************************)
\* values around every test of the loop: <<y1, x1, y2, x2, conf, class>>
DrawnSlots ==
    {<<y1, x1, y2, x2, cf, cl>> :
        y1 \in {0, 1006}, x1 \in {-1, 1006},
        y2 \in {1006, 3004, 3514, 10001}, x2 \in {1505, 2604, 10000},
        cf \in {999, 1050, 8349}, cl \in {0, 5000, 10000, Sentinel}}

DrawnLines == {Line("dict", <<s, SlotPersonA>>, MinTensorLen) : s \in DrawnSlots}

InitDecode ==
    /\ InitEngine
    /\ InitVideo
    /\ budget = [spawns |-> 1, frames |-> 0, lines |-> min_consecutive_frames]
    /\ menu = {"X"}
    /\ drawn \in DrawnLines
    /\ stream = <<>>

NextDecode ==
    \/ StartBegin(1)
    \/ StartSpawn(1)
    \/ \E p \in Gens : ProcOpenFile(p)
    \/ \E p \in Gens : \E line \in menu : ProcAppend(p, line)
    \/ \E g \in Gens : MonitorPoll(g)
    \/ \E g \in Gens : MonitorExtract(g)

SpecDecode == InitDecode /\ [][NextDecode]_vars

(***************************************************************************)
(* SpecSplit: the frame loop on a drawn stream.  The process writes the    *)
(* frames of the stream and may exit at any time.                          *)
(***************************************************************************)
\* bytes a frame may hold between its markers
InteriorBytes == {0, 216, 217, 255}

\* byte strings that begin with FF D8 and end with FF D9
Frames == {SOI \o m \o EOI : m \in SeqsUpTo(InteriorBytes, MaxFrameLen - 4)}

Streams ==
    {ss \in SeqsUpTo(Frames, MaxStreamLen \div 4) :
        ss # <<>> /\ Len(Concat(ss)) <= MaxStreamLen}

InitSplit ==
    /\ InitEngine
    /\ InitVideo
    /\ stream \in Streams
    /\ budget = [spawns |-> 1, frames |-> Len(stream), lines |-> 0]
    /\ menu = {}
    /\ drawn = NoLine

NextSplit ==
    \/ StartBegin(1)
    \/ StartSpawn(1)
    \/ \E p \in Gens : ProcWrite(p)
    \/ \E p \in Gens : ProcExit(p)
    \/ \E g \in Gens : FrameLoopCheck(g)
    \/ \E g \in Gens : FrameLoopRead(g)
    \/ \E g \in Gens : FrameLoopEof(g)
    \/ \E g \in Gens : FrameLoopScan(g)
    \/ \E g \in Gens : FrameLoopAppend(g)

SpecSplit == InitSplit /\ [][NextSplit]_vars

(***************************************************************************)
(* SpecFrames: the ring buffer.  The process writes FrameBufferMaxlen + 2  *)
(* numbered JPEGs while time passes and a caller asks for recent frames.   *)
(***************************************************************************)
InitFrames ==
    /\ InitEngine
    /\ InitVideo
    /\ stream = Numbered(FrameBufferMaxlen + 2)
    /\ budget = [spawns |-> 1, frames |-> Len(stream), lines |-> 0]
    /\ menu = {}
    /\ drawn = NoLine

NextFrames ==
    \/ StartBegin(1)
    \/ StartSpawn(1)
    \/ \E p \in Gens : ProcWrite(p)
    \/ Tick
    \/ \E g \in Gens : FrameLoopCheck(g)
    \/ \E g \in Gens : FrameLoopRead(g)
    \/ \E g \in Gens : FrameLoopScan(g)
    \/ \E g \in Gens : FrameLoopAppend(g)
    \/ \E seconds \in 0..MaxSeconds : GetRecentFramesBegin(1, seconds)
    \/ GetRecentFramesScan(1)

SpecFrames == InitFrames /\ [][NextFrames]_vars

(***************************************************************************)
(* SpecCallers: a running engine and a caller that keeps and changes the   *)
(* lists it is handed.  The process either writes FrameBufferMaxlen + 1    *)
(* numbered JPEGs or appends min_consecutive_frames + 1 records.           *)
(***************************************************************************)
InitCallers ==
    /\ InitEngine
    /\ InitVideo
    /\ menu = {"A", "B", "N"}
    /\ drawn = NoLine
    /\ \/ /\ stream = Numbered(FrameBufferMaxlen + 1)
          /\ budget = [spawns |-> MaxSpawns, frames |-> Len(stream), lines |-> 0]
       \/ /\ stream = <<>>
          /\ budget = [spawns |-> MaxSpawns, frames |-> 0,
                       lines |-> min_consecutive_frames + 1]

NextCallers ==
    \/ StartBegin(1)
    \/ StartSpawn(1)
    \/ \E p \in Gens : ProcOpenFile(p)
    \/ \E p \in Gens : \E line \in menu : ProcAppend(p, line)
    \/ \E p \in Gens : ProcWrite(p)
    \/ \E g \in Gens : FrameLoopCheck(g)
    \/ \E g \in Gens : FrameLoopRead(g)
    \/ \E g \in Gens : FrameLoopScan(g)
    \/ \E g \in Gens : FrameLoopAppend(g)
    \/ \E g \in Gens : MonitorPoll(g)
    \/ \E g \in Gens : MonitorExtract(g)
    \/ GetDetections(1)
    \/ \E seconds \in 0..MaxSeconds : GetRecentFramesBegin(1, seconds)
    \/ GetRecentFramesScan(1)
    \/ CallerMutate(1)

SpecCallers == InitCallers /\ [][NextCallers]_vars

(***************************************************************************)
(* Spec: the life cycle.  Two callers start the engine, one of them stops  *)
(* it; the process writes one JPEG or one record.                          *)
(***************************************************************************)
Init ==
    /\ InitEngine
    /\ InitVideo
    /\ menu = {"A"}
    /\ drawn = NoLine
    /\ \/ /\ stream = Numbered(1)
          /\ budget = [spawns |-> MaxSpawns, frames |-> 1, lines |-> 0]
       \/ /\ stream = <<>>
          /\ budget = [spawns |-> MaxSpawns, frames |-> 0, lines |-> 1]

Next ==
    \/ \E c \in Callers : StartBegin(c)
    \/ \E c \in Callers : StartSpawn(c)
    \/ \E c \in Callers : StartFail(c)
    \/ StopBegin(1)
    \/ StopWaitExited(1)
    \/ StopWaitKill(1)
    \/ StopFinish(1)
    \/ \E p \in Gens : ProcOpenFile(p)
    \/ \E p \in Gens : \E line \in menu : ProcAppend(p, line)
    \/ \E p \in Gens : ProcWrite(p)
    \/ \E p \in Gens : ProcExit(p)
    \/ \E p \in Gens : ProcTerminate(p)
    \/ \E g \in Gens : FrameLoopCheck(g)
    \/ \E g \in Gens : FrameLoopRead(g)
    \/ \E g \in Gens : FrameLoopEof(g)
    \/ \E g \in Gens : FrameLoopScan(g)
    \/ \E g \in Gens : FrameLoopAppend(g)
    \/ \E g \in Gens : MonitorExit(g)
    \/ \E g \in Gens : MonitorPoll(g)
    \/ \E g \in Gens : MonitorExtract(g)
    \/ GetFrame(2)
    \/ IsRunning(2)

Spec == Init /\ [][Next]_vars

(***************************************************************************)
(* SpecStart: start() and what follows without a stop().  The spawn may    *)
(* fail; the process may exit on its own; the frame loop's read of its     *)
(* stdout may fail; another thread (caller 2) asks whether the engine is   *)
(* running.                                                                *)
(***************************************************************************)
InitStart ==
    /\ InitEngine
    /\ InitVideo
    /\ menu = {}
    /\ drawn = NoLine
    /\ stream = <<>>
    /\ budget = [spawns |-> MaxSpawns + 1, frames |-> 0, lines |-> 0]

NextStart ==
    \/ StartBegin(1)
    \/ StartSpawn(1)
    \/ StartFail(1)
    \/ \E p \in Gens : ProcOpenFile(p)
    \/ \E p \in Gens : ProcExit(p)
    \/ \E g \in Gens : FrameLoopCheck(g)
    \/ \E g \in Gens : FrameLoopReadError(g)
    \/ \E g \in Gens : FrameLoopEof(g)
    \/ \E g \in Gens : MonitorPoll(g)
    \/ IsRunning(2)

SpecStart == InitStart /\ [][NextStart]_vars

(***************************************************************************)
(* SpecSupervise: one supervisor (caller 1) starts and stops the engine.    *)
(* The process writes nothing; it may handle SIGTERM or ignore it.         *)
(***************************************************************************)
InitSupervise ==
    /\ InitEngine
    /\ InitVideo
    /\ menu = {}
    /\ drawn = NoLine
    /\ stream = <<>>
    /\ budget = [spawns |-> MaxSpawns, frames |-> 0, lines |-> 0]

NextSupervise ==
    \/ StartBegin(1)
    \/ StartSpawn(1)
    \/ StopBegin(1)
    \/ StopWaitExited(1)
    \/ StopWaitKill(1)
    \/ StopFinish(1)
    \/ \E p \in Gens : ProcOpenFile(p)
    \/ \E p \in Gens : ProcTerminate(p)
    \/ \E g \in Gens : FrameLoopCheck(g)
    \/ \E g \in Gens : FrameLoopEof(g)
    \/ \E g \in Gens : MonitorExit(g)
    \/ \E g \in Gens : MonitorPoll(g)

SpecSupervise == InitSupervise /\ [][NextSupervise]_vars

\* Scheduling: a thread that can take a step takes one.  The supervisor
\* inside stop() goes on, because wait(timeout=5) and join(timeout=2) give
\* up; a worker loop that can leave its loop does so.  Nothing makes the
\* process handle SIGTERM, and nothing makes the supervisor call again.
FairSupervise ==
    /\ WF_vars(StopWaitExited(1) \/ StopWaitKill(1) \/ StopFinish(1))
    /\ WF_vars(StartSpawn(1))
    /\ \A g \in Gens : WF_vars(FrameLoopCheck(g) \/ FrameLoopEof(g))
    /\ \A g \in Gens : WF_vars(MonitorExit(g))

SpecSuperviseFair == SpecSupervise /\ FairSupervise

(***************************************************************************)
(* SpecLocks: a running engine with its locks.  The process writes one     *)
(* JPEG and one record, or stays silent; caller 1 calls the getters that   *)
(* take a lock, caller 2 calls is_running().                               *)
(***************************************************************************)
Getters == {"get_frame", "get_detections", "get_recent_frames"}

InitLocks ==
    /\ InitEngine
    /\ InitVideo
    /\ menu = {"A"}
    /\ drawn = NoLine
    /\ stream = Numbered(1)
    /\ budget = [spawns |-> 1, frames |-> 1, lines |-> 1]

NextLocks ==
    \/ StartBegin(1)
    \/ StartSpawn(1)
    \/ \E p \in Gens : ProcOpenFile(p)
    \/ \E p \in Gens : \E line \in menu : ProcAppend(p, line)
    \/ \E p \in Gens : ProcWrite(p)
    \/ \E g \in Gens : FrameLoopCheck(g)
    \/ \E g \in Gens : FrameLoopRead(g)
    \/ \E g \in Gens : FrameLoopSlice(g)
    \/ \E g \in Gens : FrameLoopLockFrame(g)
    \/ \E g \in Gens : FrameLoopStore(g)
    \/ \E g \in Gens : FrameLoopLockBuffer(g)
    \/ \E g \in Gens : FrameLoopAppendLocked(g)
    \/ \E g \in Gens : MonitorPoll(g)
    \/ \E g \in Gens : MonitorDecode(g)
    \/ \E g \in Gens : MonitorLockDetections(g)
    \/ \E g \in Gens : MonitorPublish(g)
    \/ \E op \in Getters : GetterCall(1, op)
    \/ GetterLock(1)
    \/ GetterReturn(1)
    \/ IsRunning(2)

\* Scheduling: a thread inside a critical section goes on to its end, and
\* a caller that can take its lock takes it.  Nothing else is assumed: the
\* process need not write, the worker loops need not go round.
FairLocks ==
    /\ WF_vars(GetterLock(1) \/ GetterReturn(1))
    /\ \A g \in Gens : WF_vars(FrameLoopStore(g) \/ FrameLoopAppendLocked(g))
    /\ \A g \in Gens : WF_vars(MonitorPublish(g))

SpecLocks == InitLocks /\ [][NextLocks]_vars /\ FairLocks

(***************************************************************************)
(* Properties of the frame splitter (SpecSplit).                           *)
(***************************************************************************)
\* every byte of the stream was written, read and scanned
StreamConsumed ==
    /\ budget.frames = 0
    /\ \A p \in Gens : pipe[p] = <<>>
    /\ streamPc[1] \in {"check", "read", "done"}

\* C1: once N concatenated frames, each beginning with FF D8 and ending with
\* FF D9, have been delivered to the frame loop, the loop has published
\* exactly those N frames, in order and byte for byte.
C1_EmitsEveryFrame == StreamConsumed => emitted = stream

(***************************************************************************)
(* Properties of the debouncer (SpecDebounce).                             *)
(***************************************************************************)
\* what get_detections() would hand out now
Published == heap[latest_detections]

\* the number of consecutive detecting records ending with the i-th processed
RunEndingAt(tr, i) ==
    LET quiet == {j \in 1..i : ~tr[j].flag}
    IN  IF quiet = {} THEN i ELSE i - Max(quiet)

\* the flags of the processed records
Flags == [i \in 1..Len(processed) |-> processed[i].flag]

\* C2: get_detections() returns a non-empty list only when the records
\* processed last form a run of at least min_consecutive_frames detecting
\* records, and after every record of a shorter run the published list is empty.
C2_PublishedOnlyAfterRun ==
    [][/\ \A c \in Callers :
            (GetDetections(c) /\ heap'[cret'[c].ref] # <<>>)
                => RunEndingAt(processed, Len(processed)) >= min_consecutive_frames
       /\ \A i \in 1..Len(processed') :
            RunEndingAt(processed', i) < min_consecutive_frames
                => processed'[i].published = <<>>]_vars

\* a caller was handed a non-empty list although, earlier, a record without
\* a person and then a single detecting record had been processed
C2_Witness ==
    \E c \in Callers :
        /\ cret[c].op = "get_detections" /\ heap[cret[c].ref] # <<>>
        /\ \E i \in 1..(Len(processed) - 1) :
              ~processed[i].flag /\ processed[i + 1].flag
                /\ processed[i + 1].published = <<>>

\* C3: a record that brings the run to min_consecutive_frames or beyond
\* publishes exactly its own decoded detections, and the published slot holds
\* what the last record published; after the flags true, false, true, true,
\* true, true the published list was empty for the first four records and
\* non-empty for the fifth and the sixth.
C3_PublishesVerbatim ==
    /\ \A i \in 1..Len(processed) :
          RunEndingAt(processed, i) >= min_consecutive_frames
            => LET fd == LineOf(processed[i].line)
               IN  /\ processed[i].published = Decode(Tensor(fd), fd.len)
                   /\ processed[i].published # <<>>
    /\ processed # <<>> => Published = processed[Len(processed)].published
    /\ (Len(processed) >= 6 /\ SubSeq(Flags, 1, 6) = <<TRUE, FALSE, TRUE, TRUE, TRUE, TRUE>>)
          => /\ \A i \in 1..4 : processed[i].published = <<>>
             /\ \A i \in 5..6 : processed[i].published # <<>>

\* the scenario true, false, true, true, true, true has been processed
C3_Witness ==
    /\ Len(processed) = 6
    /\ Flags = <<TRUE, FALSE, TRUE, TRUE, TRUE, TRUE>>
    /\ Published # <<>>

\* C4: after a record without a qualifying detection the counter is 0 and the
\* published list is empty, however long the run before it; the counter is
\* the length of the current run, so the two detecting records that follow
\* publish nothing and the third one publishes.
C4_QuietRecordResets ==
    /\ consecutive_person_frames = RunEndingAt(processed, Len(processed))
    /\ (processed # <<>> /\ ~processed[Len(processed)].flag)
          => /\ consecutive_person_frames = 0
             /\ Published = <<>>
             /\ processed[Len(processed)].published = <<>>
    /\ \A i \in 1..Len(processed) :
          ~processed[i].flag
            => \A j \in (i + 1)..Len(processed) :
                  (\A k \in (i + 1)..j : processed[k].flag)
                    => (processed[j].published # <<>> <=> j - i >= min_consecutive_frames)

\* a published run, one record without a person, then three detecting
\* records of which only the third publishes
C4_Witness ==
    /\ Len(processed) = 7
    /\ Flags = <<TRUE, TRUE, TRUE, FALSE, TRUE, TRUE, TRUE>>
    /\ processed[3].published # <<>>
    /\ processed[6].published = <<>>
    /\ Published # <<>>

\* C9 (as stated): two calls of _extract_detections with the same record
\* give the same output.
C9_SameRecordSameOutput ==
    \A i, j \in 1..Len(processed) :
        processed[i].line = processed[j].line
            => processed[i].published = processed[j].published

\* C9 (amended): what a record decodes to depends on the record alone, the
\* call publishes that list or the empty list, and the call changes nothing
\* of the engine but the debounce history, the counter and the published list.
C9_DecodeDependsOnRecordOnly ==
    [][processed' # processed
          => LET e  == processed'[Len(processed')]
                 fd == LineOf(e.line)
             IN  /\ e.flag = (Decode(Tensor(fd), fd.len) # <<>>)
                 /\ e.published \in {<<>>, Decode(Tensor(fd), fd.len)}
                 /\ heap'[latest_detections'] = e.published
                 /\ UNCHANGED <<running, process, stream_thread, monitor_thread,
                                current_frame, metadata_file, last_position>>
                 /\ heap'[frame_buffer] = heap[frame_buffer]
                 /\ \A c \in Callers :
                      cret[c].kind = "list" => heap'[cret[c].ref] = heap[cret[c].ref]]_vars

\* the same record was processed twice and published differently
C9_Witness ==
    \E i, j \in 1..Len(processed) :
        /\ i < j
        /\ processed[i].line = processed[j].line
        /\ processed[i].published = <<>>
        /\ processed[j].published # <<>>

(***************************************************************************)
(* Properties of the decoder (SpecDecode).                                 *)
(***************************************************************************)
\* the detections that were published
Reported == UNION {Range(processed[i].published) : i \in 1..Len(processed)}

\* the slots <<y1, x1, y2, x2, conf, class>> of the records that were processed
SlotsSeen == UNION {Range(LineOf(processed[i].line).slots) : i \in 1..Len(processed)}

\* the confidence, range and ordering tests on a reported detection
WellFormed(d) ==
    /\ d.confidence >= MIN_CONFIDENCE
    /\ \A k \in 1..4 : 0 <= d.bbox[k] /\ d.bbox[k] <= One
    /\ d.bbox[3] > d.bbox[1]
    /\ d.bbox[4] > d.bbox[2]

\* C8 (as stated): every reported detection has confidence >= 0.10, its
\* coordinates in [0,1], x_max > x_min, y_max > y_min, width >= 0.05,
\* height >= 0.20 and area >= 0.04.
C8_ReportedMeetsSizeFilter ==
    \A d \in Reported :
        /\ WellFormed(d)
        /\ d.bbox[3] - d.bbox[1] >= MinWidth
        /\ d.bbox[4] - d.bbox[2] >= MinHeight
        /\ (d.bbox[3] - d.bbox[1]) * (d.bbox[4] - d.bbox[2]) >= MinArea

\* C8 (amended): every reported detection has confidence >= 0.10, its
\* coordinates in [0,1], x_max > x_min and y_max > y_min, and it is the
\* rounding (confidence to 2 decimals, coordinates to 3) of a class-0 slot
\* whose unrounded values pass the confidence test and the size filter.
C8_RawMeetsSizeFilter ==
    \A d \in Reported :
        /\ WellFormed(d)
        /\ \E s \in SlotsSeen :
              /\ s[6] >= 0 /\ s[6] < One
              /\ s[5] >= MIN_CONFIDENCE
              /\ s[4] - s[2] >= MinWidth
              /\ s[3] - s[1] >= MinHeight
              /\ (s[4] - s[2]) * (s[3] - s[1]) >= MinArea
              /\ d.class_id = 0
              /\ d.confidence = RoundTo(s[5], ConfQuantum)
              /\ d.bbox = <<RoundTo(s[2], BoxQuantum), RoundTo(s[1], BoxQuantum),
                            RoundTo(s[4], BoxQuantum), RoundTo(s[3], BoxQuantum)>>

\* a reported detection whose reported box is smaller than 0.04
C8_Witness ==
    \E d \in Reported :
        (d.bbox[3] - d.bbox[1]) * (d.bbox[4] - d.bbox[2]) < MinArea

(***************************************************************************)
(* Properties of the ring buffer (SpecFrames).                             *)
(***************************************************************************)
\* the frames of a list of (timestamp, frame) pairs
Payloads(entries) == [i \in 1..Len(entries) |-> entries[i][2]]

\* C5: the ring buffer never holds more than FrameBufferMaxlen frames, and it
\* holds the frames pushed last, in the order they were pushed.
C5_RingBufferBounded ==
    /\ Len(heap[frame_buffer]) <= FrameBufferMaxlen
    /\ Payloads(heap[frame_buffer]) = LastN(emitted, FrameBufferMaxlen)

\* two frames more than the capacity were pushed, the kept ones as old as
\* the evicted ones
C5_Witness ==
    /\ Len(emitted) = FrameBufferMaxlen + 2
    /\ Len(heap[frame_buffer]) = FrameBufferMaxlen
    /\ heap[frame_buffer][1][1] = 0
    /\ now > 0

\* C6: get_recent_frames(seconds) returns the frames that are in the ring
\* buffer when it scans and were stamped at or after (time of the call -
\* seconds), all of them and no others, in the buffer's order.
C6_RecentFramesSinceCutoff ==
    [][\A c \in Callers :
          GetRecentFramesScan(c)
            => LET since == clocal[c].calledAt - clocal[c].seconds * TicksPerSecond
                   want  == SelectSeq(heap[frame_buffer], LAMBDA e : e[1] >= since)
               IN  Payloads(heap'[cret'[c].ref]) = Payloads(want)]_vars

\* a call returned some of the buffered frames and left an older one out,
\* and nothing was pushed since
C6_Witness ==
    \E c \in Callers :
        /\ cret[c].op = "get_recent_frames"
        /\ cpc[c] = "idle"
        /\ LET got == heap[cret[c].ref]
               buf == heap[frame_buffer]
           IN  /\ got # <<>>
               /\ Len(got) < Len(buf)
               /\ Payloads(got) = LastN(Payloads(buf), Len(got))
               /\ buf[Len(buf) - Len(got) + 1][1] > buf[Len(buf) - Len(got)][1]

C10_StartWhileRunningIsNoOp ==
    [][\A c \in Callers :
          (StartBegin(c) /\ running)
            => /\ UNCHANGED <<running, process, stream_thread, monitor_thread, procState,
                              streamPc, monPc, metadata_file, current_frame,
                              latest_detections, detection_history,
                              consecutive_person_frames>>
               /\ heap'[frame_buffer] = heap[frame_buffer]
               /\ heap'[latest_detections] = heap[latest_detections]
               /\ cpc'[c] = "idle"]_vars

\* start() returned without a spawn on an engine that holds a metadata file
\* with a record in it, a debounce count and published detections
C10_Witness ==
    \E c \in Callers :
        /\ cret[c] = Ret("start", "already_running")
        /\ running
        /\ metadata_file.lines # <<>>
        /\ consecutive_person_frames > 0
        /\ Published # <<>>

(***************************************************************************)
(* SpecTail: the metadata file while it is being written.  The process     *)
(* appends up to MaxTailLines copies of line "A", each in one write or in  *)
(* two, and the monitor polls in between.                                  *)
(***************************************************************************)
MaxTailLines == 3

InitTail ==
    /\ InitEngine
    /\ InitVideo
    /\ budget = [spawns |-> 1, frames |-> 0, lines |-> MaxTailLines]
    /\ menu = {"A"}
    /\ drawn = NoLine
    /\ stream = <<>>

NextTail ==
    \/ StartBegin(1)
    \/ StartSpawn(1)
    \/ \E p \in Gens : ProcOpenFile(p)
    \/ \E p \in Gens : \E line \in menu : ProcAppend(p, line)
    \/ \E p \in Gens : ProcAppendHead(p)
    \/ \E p \in Gens : ProcAppendTail(p)
    \/ \E g \in Gens : MonitorPoll(g)
    \/ \E g \in Gens : MonitorExtract(g)

SpecTail == InitTail /\ [][NextTail]_vars

(***************************************************************************)
(* Properties of start() and is_running() (SpecStart).                     *)
(***************************************************************************)
\* the supervisor's last call was a start() that raised
StartRaised == cpc[1] = "idle" /\ cret[1] = Ret("start", "raised")

\* C11: when the spawn fails, start() raises to its caller and starts no
\* process and no worker thread; from its return until the supervisor's
\* next call the running flag is false and is_running() is false; and the
\* supervisor's next start() goes on to the spawn again.
C11_FailedStartLeavesStopped ==
    [][/\ (cpc[1] = "start_spawn" /\ cret'[1] = Ret("start", "raised")) =>
              /\ procState' = procState
              /\ streamPc' = streamPc /\ monPc' = monPc
              /\ stream_thread' = stream_thread /\ monitor_thread' = monitor_thread
       /\ StartRaised' => ~running' /\ ~(running' /\ Alive(process'))
       /\ (StartRaised /\ <<cpc[1], cret[1]>>' # <<cpc[1], cret[1]>>) =>
              cpc'[1] = "start_spawn"]_vars

\* a start() succeeded after a spawn had failed
C11_Witness ==
    /\ cret[1] = Ret("start", "started")
    /\ budget.spawns < MaxSpawns
    /\ running /\ Alive(process)

\* C14: a call of is_running() returns true exactly when the running flag
\* is set, a process has been spawned and that process has not exited; in
\* particular it returns false once the process has exited on its own,
\* although the flag is still set, and without a stop() that stays so.
C14_IsRunningReflectsProcess ==
    /\ [][\A c \in Callers :
            (cret'[c] # cret[c] /\ cret'[c].op = "is_running") =>
                /\ cret'[c].flag = (running /\ process \in Gens /\ Spawned(process))
                /\ (process \in Gens /\ procState[process] = "exited") => ~cret'[c].flag]_vars
    /\ []((process \in Gens /\ procState[process] = "exited") =>
              [](~(running /\ process \in Gens /\ Spawned(process))))

\* is_running() has returned false for a process that exited on its own
\* while the flag is set
C14_Witness ==
    /\ cret[2].op = "is_running" /\ ~cret[2].flag
    /\ running /\ process \in Gens /\ procState[process] = "exited"
    /\ signalled[process] = <<>>

(***************************************************************************)
(* Properties of stop() (SpecSupervise).                                   *)
(***************************************************************************)
\* C12: stop() on a running engine whose process is alive first sends
\* SIGTERM to the process group and waits; when the wait ends, SIGKILL is
\* sent if and only if the process has not exited by then, and it goes to a
\* group that received SIGTERM before: no group ever receives anything but
\* SIGTERM, or SIGTERM and then SIGKILL.
C12_TermThenKillOnTimeout ==
    [][/\ \A p \in Gens :
              signalled'[p] \in {<<>>, <<"SIGTERM">>, <<"SIGTERM", "SIGKILL">>}
       /\ (running /\ ~running' /\ Alive(process)) =>
              /\ signalled' = [signalled EXCEPT ![process] = <<"SIGTERM">>]
              /\ cpc'[1] = "stop_wait"
       /\ (cpc[1] = "stop_wait" /\ cpc'[1] # "stop_wait") =>
              IF procState[clocal[1].target] = "exited"
              THEN signalled' = signalled
              ELSE signalled' = [signalled EXCEPT
                                    ![clocal[1].target] = <<"SIGTERM", "SIGKILL">>]]_vars

\* one stop() had to kill its process, a later one did not
C12_Witness ==
    /\ cret[1] = Ret("stop", "stopped")
    /\ \E p, q \in Gens :
          /\ signalled[p] = <<"SIGTERM", "SIGKILL">>
          /\ signalled[q] = <<"SIGTERM">> /\ procState[q] = "exited"

\* the supervisor's last call was a stop() and it has returned
StopReturned == cpc[1] = "idle" /\ cret[1].op = "stop"

\* C13: every stop() returns, whatever the process and the worker threads
\* do (a frame loop blocked in its read included), and from the return of
\* stop() until the supervisor's next call is_running() is false.
C13_StopReturnsAndReportsStopped ==
    /\ (cpc[1] \in {"stop_wait", "stop_finish"}) ~> (cpc[1] = "idle")
    /\ [](StopReturned => ~(running /\ Alive(process)))

\* stop() has returned while the frame loop it left behind is still in
\* its read
C13_Witness ==
    /\ StopReturned /\ cret[1].kind = "stopped"
    /\ stream_thread # 0 /\ streamPc[stream_thread] = "read"
    /\ signalled[process] = <<"SIGTERM", "SIGKILL">>

\* stop() has been requested for the worker loops of generation g
StopRequested(g) == cpc[1] \in {"stop_wait", "stop_finish"} /\ stream_thread = g

\* the worker loops of generation g have ended and its process has exited
Ended(g) ==
    /\ streamPc[g] \in {"done", "failed"}
    /\ monPc[g] = "done"
    /\ procState[g] = "exited"

\* C15: once stop() is requested, the frame loop and the metadata loop
\* started by the preceding start() eventually end and the process exits,
\* whatever the supervisor does next.
C15_WorkersEndAfterStop ==
    \A g \in Gens : StopRequested(g) ~> Ended(g)

(***************************************************************************)
(* Properties of the locks (SpecLocks).                                    *)
(***************************************************************************)
Locks == {"frame", "detection", "buffer"}

CaughtUp(g) ==
    /\ monPc[g] = "poll"
    /\ metadata_file.exists
    /\ last_position[g] = Len(metadata_file.lines)
    /\ ~Unfinished(metadata_file.lines)

\* the offset of generation g lies behind a piece of a line whose rest the
\* monitor has not read
OffsetInsideLine(g) ==
    /\ metadata_file.exists
    /\ last_position[g] \in 1..Len(metadata_file.lines)
    /\ metadata_file.lines[last_position[g]] = PartHead

\* C17: the offset of the metadata reader never advances past a fragment
\* that failed to decode: it never lies behind the beginning of a line
\* whose rest was not read with it, and once the monitor has caught up with
\* a file of complete lines, every record of the file has been processed.
C17_OffsetStaysBeforeUndecoded ==
    \A g \in Gens :
        /\ ~OffsetInsideLine(g)
        /\ (monPc[g] # "unborn" /\ CaughtUp(g))
              => Len(processed) = Len(ParseContent(metadata_file.lines))


(***************************************************************************)
(* SpecOutage: one run of the engine and its end.  The process writes one  *)
(* JPEG and min_consecutive_frames records with a person, then exits on    *)
(* its own or is stopped by caller 1; caller 2 reads the frame and the     *)
(* detections at any time.                                                 *)
(***************************************************************************)
InitOutage ==
    /\ InitEngine
    /\ InitVideo
    /\ budget = [spawns |-> 1, frames |-> 1, lines |-> min_consecutive_frames]
    /\ menu = {"A"}
    /\ drawn = NoLine
    /\ stream = Numbered(1)

NextOutage ==
    \/ StartBegin(1)
    \/ StartSpawn(1)
    \/ StopBegin(1)
    \/ StopWaitExited(1)
    \/ StopWaitKill(1)
    \/ StopFinish(1)
    \/ \E p \in Gens : ProcOpenFile(p)
    \/ \E p \in Gens : \E line \in menu : ProcAppend(p, line)
    \/ \E p \in Gens : ProcWrite(p)
    \/ \E p \in Gens : ProcExit(p)
    \/ \E p \in Gens : ProcTerminate(p)
    \/ \E g \in Gens : FrameLoopCheck(g)
    \/ \E g \in Gens : FrameLoopRead(g)
    \/ \E g \in Gens : FrameLoopEof(g)
    \/ \E g \in Gens : FrameLoopScan(g)
    \/ \E g \in Gens : FrameLoopAppend(g)
    \/ \E g \in Gens : MonitorExit(g)
    \/ \E g \in Gens : MonitorPoll(g)
    \/ \E g \in Gens : MonitorExtract(g)
    \/ GetFrame(2)
    \/ GetDetections(2)

SpecOutage == InitOutage /\ [][NextOutage]_vars

\* the capture process is not running: none was started, or stop() has
\* dropped it, or it has exited
ProcessDown == ~Alive(process)

\* C18: while the capture process is not running, get_frame() returns the
\* empty value and get_detections() returns an empty list, never what was
\* captured while the process ran.
C18_UnavailableWhenDown ==
    [][(cret'[2] # cret[2] /\ ProcessDown) =>
          /\ cret'[2].op = "get_frame" => cret'[2].bytes = <<>>
          /\ cret'[2].op = "get_detections" =>
                 (cret'[2].kind = "list" /\ heap'[cret'[2].ref] = <<>>)]_vars


\* the frame loop of the engine's current process has ended on a failed read
ReadFailed == process \in Gens /\ streamPc[process] = "failed"

\* C19: once the frame loop has exited on a failed read of the process's
\* stdout, every is_running() returns false until a new start succeeds.
C19_ReadErrorStopsRunning ==
    [][(cret'[2] # cret[2] /\ cret'[2].op = "is_running" /\ ReadFailed) => ~cret'[2].flag]_vars


(***************************************************************************)
(* SpecEncode: calls of frames_to_mp4, one after the other, with every     *)
(* list of up to MaxEncodeFrames buffered frames and every outcome of the  *)
(* encoder.                                                                *)
(***************************************************************************)
\* (timestamp, jpeg_bytes) tuples as get_recent_frames returns them
EncodeFrames == {<<0, FrameNo(1)>>, <<1, FrameNo(2)>>}

\* frames per second asked for
FpsChoices == {1, 2}

InitEncode ==
    /\ InitEngine
    /\ InitVideo
    /\ budget = [spawns |-> 0, frames |-> 0, lines |-> 0]
    /\ menu = {}
    /\ drawn = NoLine
    /\ stream = <<>>

NextEncode ==
    \/ \E frames \in SeqsUpTo(EncodeFrames, MaxEncodeFrames) :
           \E fps \in FpsChoices : FramesToMp4Begin(frames, fps)
    \/ \E outcome \in Outcomes : FramesToMp4Encode(outcome)
    \/ FramesToMp4Stat

SpecEncode == InitEncode /\ [][NextEncode]_vars

\* C20: a run of the encoder that exits with a non-zero status or exceeds
\* its timeout makes frames_to_mp4 raise, and no metadata is returned for it;
\* metadata is returned only for a run that succeeded on the frames of the
\* call; an empty frame list raises before any encoder is run.
C20_FailedEncodeRaises ==
    /\ [][/\ (ffmpeg'.runs # ffmpeg.runs /\ ffmpeg'.outcome \in {"failed", "timeout"})
              => (mp4Ret' = Raised("RuntimeError") /\ mp4Pc' = "idle")
          /\ (mp4Args' # mp4Args /\ mp4Args'.frames = <<>>)
              => (mp4Ret' = Raised("ValueError") /\ mp4Pc' = "idle" /\ ffmpeg' = ffmpeg)
          /\ (mp4Ret' # mp4Ret /\ mp4Ret'.kind = "dict")
              => (ffmpeg.outcome = "ok" /\ ffmpeg.input = FrameFiles(mp4Args.frames))]_vars
    /\ [](mp4Ret.kind = "dict" => ffmpeg.outcome = "ok")
    /\ [](ffmpeg.runs > 0 => ffmpeg.input # <<>>)

\* the encoder was killed on its timeout after it had replaced the output
\* file, and the call has raised
C20_Witness ==
    /\ mp4Pc = "idle"
    /\ ffmpeg.outcome = "timeout"
    /\ mp4Ret = Raised("RuntimeError")
    /\ output_file.exists /\ ~output_file.whole


\* frames_to_mp4 has raised for a run of the encoder, and its caller's
\* handler (which only reports the error) is done
EncodeFailed == mp4Pc = "idle" /\ mp4Ret = Raised("RuntimeError")

\* C21: after frames_to_mp4 has failed on the encoder's exit status or on
\* its timeout, no file exists at output_path.
C21_NoOutputAfterFailure == EncodeFailed => ~output_file.exists


(***************************************************************************)
(* SpecMalformed: a metadata file with malformed lines.  The process       *)
(* appends up to MaxMalformedLines lines, each a record with a person      *)
(* ("A") or the line "X", which is drawn for the run: text that is no      *)
(* JSON, an object without a tensor, or a tensor that is empty or one      *)
(* value short of the schema.                                              *)
(***************************************************************************)
MaxMalformedLines == 4

MalformedLines ==
    {Line("bad", <<>>, 0),
     Line("notensor", <<>>, 0),
     Line("dict", <<>>, 0),
     Line("dict", <<SlotPersonA>>, MinTensorLen - 1)}

InitMalformed ==
    /\ InitEngine
    /\ InitVideo
    /\ budget = [spawns |-> 1, frames |-> 0, lines |-> MaxMalformedLines]
    /\ menu = {"A", "X"}
    /\ drawn \in MalformedLines
    /\ stream = <<>>

NextMalformed ==
    \/ StartBegin(1)
    \/ StartSpawn(1)
    \/ \E p \in Gens : ProcOpenFile(p)
    \/ \E p \in Gens : \E line \in menu : ProcAppend(p, line)
    \/ \E g \in Gens : MonitorPoll(g)
    \/ \E g \in Gens : MonitorExtract(g)

SpecMalformed == InitMalformed /\ [][NextMalformed]_vars

\* the lines among `lines` that carry a tensor of the schema's length
WithTensor(lines) == SelectSeq(lines, LAMBDA l : HasTensor(LineOf(l)))

\* the lines that went through the decoder, in order
ProcessedLines == [i \in 1..Len(processed) |-> processed[i].line]

DescriptorsOpen(p) == p \in Gens /\ procState[p] # "unborn" /\ process = p

\* the supervisor's stop() of a running engine has returned
StoppedRunning == cpc[1] = "idle" /\ cret[1] = Ret("stop", "stopped")

\* stop() of a running engine has returned: the process has exited and the
\* metadata file is gone
StopDestroysProcessAndFile ==
    StoppedRunning => (procState[process] = "exited" /\ ~metadata_file.exists)

\* C23: when stop() of a running engine returns, the process has exited,
\* the descriptors the engine read its output from are closed, and the
\* metadata file no longer exists.
C23_StopDestroysHandle ==
    StoppedRunning =>
        /\ procState[process] = "exited"
        /\ ~DescriptorsOpen(process)
        /\ ~metadata_file.exists


(***************************************************************************)
(* SpecRestart: the metadata side over a stop and a restart.  The          *)
(* supervisor starts and stops the engine; the processes append records    *)
(* with a person, min_consecutive_frames + 1 in all.                       *)
(***************************************************************************)
InitRestart ==
    /\ InitEngine
    /\ InitVideo
    /\ budget = [spawns |-> MaxSpawns, frames |-> 0, lines |-> min_consecutive_frames + 1]
    /\ menu = {"A"}
    /\ drawn = NoLine
    /\ stream = <<>>

NextRestart ==
    \/ StartBegin(1)
    \/ StartSpawn(1)
    \/ StopBegin(1)
    \/ StopWaitExited(1)
    \/ StopWaitKill(1)
    \/ StopFinish(1)
    \/ \E p \in Gens : ProcOpenFile(p)
    \/ \E p \in Gens : \E line \in menu : ProcAppend(p, line)
    \/ \E p \in Gens : ProcTerminate(p)
    \/ \E g \in Gens : MonitorExit(g)
    \/ \E g \in Gens : MonitorPoll(g)
    \/ \E g \in Gens : MonitorExtract(g)

SpecRestart == InitRestart /\ [][NextRestart]_vars

\* C24: every start() that launches the engine, a restart after stop()
\* included, leaves the debounce state empty: no history, counter 0.
C24_StartResetsDebounce ==
    [][process' # process =>
          (detection_history' = <<>> /\ consecutive_person_frames' = 0)]_vars


\* the (timestamp, frame) pairs of the ring buffer
Buffered == heap[frame_buffer]

\* C25: no frame in the ring buffer is older than the maximum age relative
\* to the newest push, also while the buffer is below its capacity.
C25_BufferBoundedByAge ==
    \A i \in 1..Len(Buffered) :
        Buffered[Len(Buffered)][1] - Buffered[i][1] <= MaxAgeSeconds * TicksPerSecond


(***************************************************************************)
(* SpecBytes: the frame loop on arbitrary bytes.  The process writes one   *)
(* byte string made of up to MaxTokens markers and stray bytes in any      *)
(* order, and may exit at any time; the frame loop reads it in chunks.     *)
(***************************************************************************)
\* the two markers and the bytes they are made of (FF, D8, D9), which also
\* build broken markers and markers inside frame data
Tokens == {SOI, EOI, <<255>>, <<216>>, <<217>>}

ByteStrings == {Concat(ts) : ts \in SeqsUpTo(Tokens, MaxTokens)} \ {<<>>}

InitBytes ==
    /\ InitEngine
    /\ InitVideo
    /\ stream \in {<<b>> : b \in ByteStrings}
    /\ budget = [spawns |-> 1, frames |-> 1, lines |-> 0]
    /\ menu = {}
    /\ drawn = NoLine

SpecBytes == InitBytes /\ [][NextSplit]_vars

\* f begins with a start marker and ends with the first end marker that
\* follows this start marker
MarkerSlice(f) ==
    /\ Len(f) >= 4
    /\ SubSeq(f, 1, 2) = SOI
    /\ Find(f, EOI, 0) + 2 = Len(f)

\* the byte strings `frames` occur in `bytes` one after the other, in this
\* order and without overlap
RECURSIVE OccurInOrder(_, _)
OccurInOrder(frames, bytes) ==
    \/ frames = <<>>
    \/ /\ Find(bytes, Head(frames), 0) # -1
       /\ OccurInOrder(Tail(frames),
                       SliceFrom(bytes, Find(bytes, Head(frames), 0) + Len(Head(frames))))

\* the bytes the capture process has been given to write
Input == Concat(stream)

\* C26: whatever the bytes of the stream, every published frame is a
\* contiguous slice of the stream that begins with FF D8 and ends with the
\* first FF D9 after this start marker, and the published frames lie in
\* the stream one after the other, in the order of publication, without
\* overlap.
C26_FramesAreMarkerSlices ==
    /\ \A i \in 1..Len(emitted) : MarkerSlice(emitted[i])
    /\ OccurInOrder(emitted, Input)
    /\ current_frame # <<>> => MarkerSlice(current_frame)

\* two frames were published from a stream that begins with an end marker
C26_Witness ==
    /\ Len(emitted) = 2
    /\ SubSeq(Input, 1, 2) = EOI
    /\ Len(Input) >= Len(emitted[1]) + Len(emitted[2]) + 2


\* the buffer holds a start marker and no end marker after it
FrameIncomplete(buf) == Contains(buf, SOI) /\ Find(buf, EOI, Find(buf, SOI, 0)) = -1

\* the frames of a byte string, read as a whole: from the first start
\* marker to the first end marker after it, then on in what follows
RECURSIVE FramesOf(_)
FramesOf(bytes) ==
    LET a == Find(bytes, SOI, 0)
        e == IF a = -1 THEN -1 ELSE Find(bytes, EOI, a)
    IN  IF e = -1 THEN <<>>
        ELSE <<SubSeq(bytes, a + 1, e + 2)>> \o FramesOf(SliceFrom(bytes, e + 2))

\* C27: while the buffer holds a start marker with no end marker after it,
\* the scan publishes nothing and leaves the buffer as it is; once the
\* stream has been read to its end, the frames published are the frames of
\* the stream, whole, however the chunks cut them.
C27_IncompleteFrameWaits ==
    /\ [][\A g \in Gens :
             (streamPc[g] = "scan" /\ FrameIncomplete(streamBuf[g])) =>
                 /\ streamBuf'[g] = streamBuf[g]
                 /\ emitted' = emitted
                 /\ current_frame' = current_frame]_vars
    /\ [](StreamConsumed => emitted = FramesOf(Input))

\* a frame longer than a chunk was published after an end marker without a
\* start marker had gone by
C27_Witness ==
    /\ StreamConsumed
    /\ Len(emitted) = 1
    /\ Len(emitted[1]) > MaxChunk
    /\ SubSeq(Input, 1, 2) = EOI


\* a cap on the unconsumed buffer: room for one chunk and one byte more
BufferCap == MaxChunk + 1

\* C28: what the frame loop keeps in its buffer from one read to the next
\* never grows beyond a fixed cap, however many chunks without a complete
\* frame are read.
C28_BufferCapped ==
    \A g \in Gens :
        streamPc[g] \in {"check", "read", "done"} => Len(streamBuf[g]) <= BufferCap


\* The boundary loop is straight-line code of the frame thread between two
\* reads: a pass that has begun is carried out.
FairBytes == \A g \in Gens : WF_vars(FrameLoopScan(g) \/ FrameLoopAppend(g))

\* SpecScan: the frame loop on byte strings made of whole markers and stray
\* FF bytes, with the boundary loop carried out
InitScan ==
    /\ InitEngine
    /\ InitVideo
    /\ stream \in {<<Concat(ts)>> : ts \in SeqsUpTo({SOI, EOI, <<255>>}, MaxTokens) \ {<<>>}}
    /\ budget = [spawns |-> 1, frames |-> 1, lines |-> 0]
    /\ menu = {}
    /\ drawn = NoLine

SpecScan == InitScan /\ [][NextSplit]_vars /\ FairBytes

\* the bytes the frame loop of generation g has read from the stream
BytesRead(g) ==
    IF budget.frames > 0 THEN <<>>
    ELSE SubSeq(Input, 1, Len(Input) - Len(pipe[g]))

\* C29: whatever the buffer holds, the boundary loop run after a chunk
\* ends: every pass either slices a frame out and shortens the buffer or
\* leaves the loop with the buffer untouched, and the frame loop comes back
\* to its loop test; by then every frame of the bytes read so far has been
\* published, also behind an end marker that had no start marker and
\* behind markers inside frame data.
C29_ScanTerminates ==
    /\ \A g \in Gens : (streamPc[g] \in {"scan", "append"}) ~> (streamPc[g] = "check")
    /\ [][\A g \in Gens :
             (streamPc[g] = "scan" /\ streamPc'[g] # "scan") =>
                 \/ streamPc'[g] = "check" /\ streamBuf'[g] = streamBuf[g]
                 \/ streamPc'[g] = "append" /\ Len(streamBuf'[g]) < Len(streamBuf[g])]_vars
    /\ [](\A g \in Gens :
             streamPc[g] \in {"check", "read", "done"} => emitted = FramesOf(BytesRead(g)))

\* the loop is back at its test after a chunk that began with an end marker
\* and held a frame with a start marker inside
C29_Witness ==
    /\ streamPc[1] = "check"
    /\ Len(emitted) = 1
    /\ Find(emitted[1], SOI, 1) # -1
    /\ SubSeq(Input, 1, 2) = EOI


(***************************************************************************)
(* SpecSentinel: the decoder on records with the sentinel class in the     *)
(* first or second slot.  The process appends min_consecutive_frames       *)
(* copies of one drawn record whose slots around the sentinel are persons, *)
(* a bicycle or a box too narrow, and whose sentinel slot carries a        *)
(* person's box and confidence or none.                                    *)
(***************************************************************************)
\* slots whose class is the sentinel: y1, x1, y2, x2 and the confidence are
\* those of a person, or zero
SentinelSlots ==
    {<<SlotPersonA[1], SlotPersonA[2], SlotPersonA[3], SlotPersonA[4], SlotPersonA[5], Sentinel>>,
     <<0, 0, 0, 0, SlotPersonB[5], Sentinel>>,
     <<0, 0, 0, 0, 0, Sentinel>>}

SentinelLines ==
    {Line("dict", <<a, s, SlotPersonB>>, MinTensorLen) :
        a \in {SlotPersonA, SlotBicycle, SlotNarrow}, s \in SentinelSlots}
    \cup {Line("dict", <<s, SlotPersonA, SlotPersonB>>, MinTensorLen) : s \in SentinelSlots}

InitSentinel ==
    /\ InitEngine
    /\ InitVideo
    /\ budget = [spawns |-> 1, frames |-> 0, lines |-> min_consecutive_frames]
    /\ menu = {"X"}
    /\ drawn \in SentinelLines
    /\ stream = <<>>

SpecSentinel == InitSentinel /\ [][NextDecode]_vars

\* the first slot of the record whose class is the sentinel (one past the
\* last slot when there is none)
SentinelAt(fd) ==
    Min({j \in 1..Len(fd.slots) : fd.slots[j][6] = Sentinel} \cup {Len(fd.slots) + 1})

\* the slots of the record before its sentinel slot that pass the filters
PassingBefore(fd) ==
    {j \in 1..(SentinelAt(fd) - 1) : SlotPasses(SlotOf(Tensor(fd), fd.len, j - 1))}

\* C30: decoding stops at the first slot whose class is 100.0: a record
\* counts as detecting only if a slot before that one passes the filters,
\* and every detection published for it comes from such a slot, whatever
\* box and confidence the sentinel slot and the slots behind it hold.
C30_StopsAtSentinel ==
    \A i \in 1..Len(processed) :
        LET fd == LineOf(processed[i].line)
        IN  /\ processed[i].flag = (PassingBefore(fd) # {})
            /\ \A k \in 1..Len(processed[i].published) :
                   \E j \in PassingBefore(fd) :
                       processed[i].published[k] = DetectionOf(SlotOf(Tensor(fd), fd.len, j - 1))
            /\ Len(processed[i].published) <= Cardinality(PassingBefore(fd))

\* a record was published with the one person before its sentinel slot,
\* though the sentinel slot holds a person's box and a person follows it
C30_Witness ==
    /\ Len(processed) = min_consecutive_frames
    /\ Len(processed[min_consecutive_frames].published) = 1
    /\ drawn.slots[1] = SlotPersonA
    /\ drawn.slots[2][6] = Sentinel /\ drawn.slots[2][5] = SlotPersonA[5]
    /\ drawn.slots[3] = SlotPersonB


(***************************************************************************)
(* The label table.                                                        *)
(***************************************************************************)
\* COCO_CLASSES, lines 20-32
COCO_CLASSES ==
    <<"person", "bicycle", "car", "motorcycle", "airplane", "bus", "train",
      "truck", "boat", "traffic light", "fire hydrant", "", "stop sign",
      "parking meter", "bench", "bird", "cat", "dog", "horse", "sheep",
      "cow", "elephant", "bear", "zebra", "giraffe", "", "backpack",
      "umbrella", "", "", "handbag", "tie", "suitcase", "frisbee", "skis",
      "snowboard", "sports ball", "kite", "baseball bat", "baseball glove",
      "skateboard", "surfboard", "tennis racket", "bottle", "",
      "wine glass", "cup", "fork", "knife", "spoon", "bowl", "banana",
      "apple", "sandwich", "orange", "broccoli", "carrot", "hot dog",
      "pizza", "donut", "cake", "chair", "couch", "potted plant", "bed",
      "", "dining table", "", "", "toilet", "", "tv", "laptop", "mouse",
      "remote", "keyboard", "cell phone", "microwave", "oven", "toaster",
      "sink", "refrigerator", "", "book", "clock", "vase", "scissors",
      "teddy bear", "hair drier", "toothbrush">>

\* the label-table name of a class id ("" where the table has none)
LabelOf(class_id) ==
    IF class_id \in 0..(Len(COCO_CLASSES) - 1) THEN COCO_CLASSES[class_id + 1] ELSE ""

\* the slots of a record before its sentinel slot, as the loop reads them
SlotsBeforeSentinel(fd) ==
    [j \in 1..(SentinelAt(fd) - 1) |-> SlotOf(Tensor(fd), fd.len, j - 1)]

\* the detections of a record when classes are filtered by the label table
LabelledDetections(fd) ==
    LET kept == SelectSeq(SlotsBeforeSentinel(fd),
                          LAMBDA sl : SlotFilters(sl) /\ LabelOf(IntOf(sl.class_val)) # "")
    IN  [k \in 1..Len(kept) |->
            [DetectionOf(kept[k]) EXCEPT !.class = LabelOf(IntOf(kept[k].class_val)),
                                         !.class_id = IntOf(kept[k].class_val)]]

\* C31: a slot that passes the confidence and box filters yields a
\* detection labelled with the label-table name of its class id, unless
\* that name is blank: the list published for a record is the list of its
\* slots so labelled.
C31_LabelledByTable ==
    \A i \in 1..Len(processed) :
        processed[i].published # <<>> =>
            processed[i].published = LabelledDetections(LineOf(processed[i].line))


\* the detections of a record when only class id 0 is kept
PersonDetections(fd) ==
    LET kept == SelectSeq(SlotsBeforeSentinel(fd),
                          LAMBDA sl : SlotFilters(sl) /\ IntOf(sl.class_val) = 0)
    IN  [k \in 1..Len(kept) |-> DetectionOf(kept[k])]

\* C31 (amended): a slot that passes the confidence and box filters yields
\* a detection only when int(class value) is 0, and the detection is then
\* labelled "person" with class id 0; slots of every other class id are
\* filtered out whatever name the label table gives them.
C31_PersonOnly ==
    \A i \in 1..Len(processed) :
        processed[i].published # <<>> =>
            /\ processed[i].published = PersonDetections(LineOf(processed[i].line))
            /\ \A k \in 1..Len(processed[i].published) :
                   /\ processed[i].published[k].class = "person"
                   /\ processed[i].published[k].class_id = 0

\* a published record with a bicycle slot that passes the confidence and
\* box filters next to a person slot
C31_Witness ==
    \E i \in 1..Len(processed) :
        LET sl == SlotsBeforeSentinel(LineOf(processed[i].line))
        IN  /\ processed[i].published # <<>>
            /\ \E j \in 1..Len(sl) :
                   /\ SlotFilters(sl[j])
                   /\ LabelOf(IntOf(sl[j].class_val)) = "bicycle"
            /\ \E j \in 1..Len(sl) : SlotPasses(sl[j])


\* the threads that take a lock
Threads ==
    {<<"caller", c>> : c \in Callers} \cup {<<"stream", g>> : g \in Gens}
        \cup {<<"monitor", g>> : g \in Gens}

\* the locks a thread holds
Held(t) == {l \in Locks : t \in Holders(l)}

\* the lock a thread stands before (`with lock:` not yet entered), if any
Wanted(t) ==
    CASE t[1] = "caller" ->
            IF cpc[t[2]] = "call" THEN {LockOf(clocal[t[2]].op)} ELSE {}
      [] t[1] = "stream" ->
            IF streamPc[t[2]] = "lock_frame" THEN {"frame"}
            ELSE IF streamPc[t[2]] = "lock_buffer" THEN {"buffer"} ELSE {}
      [] OTHER ->
            IF monPc[t[2]] = "lock_detections" THEN {"detection"} ELSE {}

\* the thread is in a blocking read of the stream or the file, a sleep or a
\* wait for the process
Blocking(t) ==
    CASE t[1] = "caller" -> cpc[t[2]] \in {"stop_wait", "stop_finish"}
      [] t[1] = "stream" -> streamPc[t[2]] \in {"check", "read"}
      [] OTHER -> monPc[t[2]] = "poll"

\* t waits for a lock that u holds
WaitsFor(t, u) == \E l \in Wanted(t) : u \in Holders(l)

\* C32: a thread that holds one of the three locks holds only that one, is
\* not in a blocking read, a sleep or a process wait and stands before no
\* other lock; so whoever a waiting thread waits for is itself not waiting,
\* and no cycle of waiting threads exists.
C32_NoNestedLocks ==
    /\ \A t \in Threads :
          Held(t) # {} => /\ Cardinality(Held(t)) = 1
                          /\ ~Blocking(t)
                          /\ Wanted(t) = {}
    /\ \A t, u \in Threads : WaitsFor(t, u) => \A v \in Threads : ~WaitsFor(u, v)

\* get_frame() waits for _frame_lock while the frame loop stores a frame
\* under it
C32_Witness ==
    \E g \in Gens :
        /\ <<"stream", g>> \in Holders("frame")
        /\ WaitsFor(<<"caller", 1>>, <<"stream", g>>)


\* the frame loops and the metadata loops that have started and not ended
FrameLoopsAlive == {g \in Gens : streamPc[g] \notin {"unborn", "done", "failed"}}

MonitorLoopsAlive == {g \in Gens : monPc[g] \notin {"unborn", "done"}}

\* C33: whatever start() and stop() calls the supervisor makes one after
\* the other, at most one frame loop and at most one metadata loop of the
\* engine are alive.
C33_OneLoopOfEachKind ==
    /\ Cardinality(FrameLoopsAlive) <= 1
    /\ Cardinality(MonitorLoopsAlive) <= 1


(***************************************************************************)
(* SpecAppend: the metadata file read while it grows.  The process appends *)
(* up to MaxTailLines records with a person ("A") or without one ("N"); a  *)
(* record "A" may reach the file in two writes.                            *)
(***************************************************************************)
InitAppend ==
    /\ InitEngine
    /\ InitVideo
    /\ budget = [spawns |-> 1, frames |-> 0, lines |-> MaxTailLines]
    /\ menu = {"A", "N"}
    /\ drawn = NoLine
    /\ stream = <<>>

SpecAppend == InitAppend /\ [][NextTail]_vars

\* a can be had from b by leaving elements out (the order is kept)
RECURSIVE IsSubseq(_, _)
IsSubseq(a, b) ==
    IF a = <<>> THEN TRUE
    ELSE IF b = <<>> THEN FALSE
    ELSE IF Head(a) = Head(b) THEN IsSubseq(Tail(a), Tail(b))
    ELSE IsSubseq(a, Tail(b))

\* C34: within one run of the metadata loop a poll reads what was appended
\* behind the offset the previous poll left, and the offset never moves
\* back; so the records handed to the decoder so far, with those waiting
\* from the current poll, are records of the file up to the offset, each
\* taken at most once and in the order of the file.
C34_EachRecordOnceInOrder ==
    /\ [](\A g \in Gens :
            (monPc[g] \in {"poll", "extract"} /\ metadata_file.exists) =>
                /\ last_position[g] <= Len(metadata_file.lines)
                /\ IsSubseq(ProcessedLines \o pending[g],
                            ParseContent(SubSeq(metadata_file.lines, 1, last_position[g]))))
    /\ [][\A g \in Gens :
            last_position'[g] # last_position[g] =>
                /\ last_position'[g] > last_position[g]
                /\ pending'[g] = ParseContent(SubSeq(metadata_file.lines,
                                                     last_position[g] + 1,
                                                     last_position'[g]))]_vars

\* the record without a person was read by one poll and the last record by
\* a later one: the record between them was in the file only in part when
\* it was read
C34_Witness ==
    /\ metadata_file.lines = <<"N", PartHead, PartTail, "A">>
    /\ ProcessedLines = <<"N", "A">>
    /\ monPc[1] = "poll" /\ last_position[1] = 4


(***************************************************************************)
(* SpecLatest: the latest frame and the ring buffer, lock by lock.  The    *)
(* process writes FrameBufferMaxlen + 2 numbered JPEGs while time passes   *)
(* and a caller calls get_frame() and get_recent_frames().                 *)
(***************************************************************************)
NextLatest ==
    \/ StartBegin(1)
    \/ StartSpawn(1)
    \/ \E p \in Gens : ProcWrite(p)
    \/ Tick
    \/ \E g \in Gens : FrameLoopCheck(g)
    \/ \E g \in Gens : FrameLoopRead(g)
    \/ \E g \in Gens : FrameLoopSlice(g)
    \/ \E g \in Gens : FrameLoopLockFrame(g)
    \/ \E g \in Gens : FrameLoopStore(g)
    \/ \E g \in Gens : FrameLoopLockBuffer(g)
    \/ \E g \in Gens : FrameLoopAppendLocked(g)
    \/ \E op \in {"get_frame", "get_recent_frames"} : GetterCall(1, op)
    \/ GetterLock(1)
    \/ GetterReturn(1)

SpecLatest == InitFrames /\ [][NextLatest]_vars

\* the frame loop of generation g is not between the slicing of a frame and
\* its append to the ring buffer
BetweenFrames(g) ==
    streamPc[g] \notin {"lock_frame", "store", "lock_buffer", "append_locked"}

\* the number k of the JPEG FrameNo(k)
NumberOf(frame) == frame[3]

\* C35: an extracted frame is first stored as the latest frame and then
\* appended to the ring buffer with its time; frames pass in the order of
\* extraction.  Between two frames the latest frame is the last one
\* extracted and is the payload of the newest ring-buffer entry; after the
\* store and before the append the latest frame is the one being appended;
\* get_frame() returns the latest frame, so never an older frame after a
\* newer one.
C35_LatestFrameIsNewest ==
    /\ [](\A g \in Gens :
            /\ (BetweenFrames(g) /\ emitted # <<>> /\ stream_thread = g) =>
                   /\ current_frame = emitted[Len(emitted)]
                   /\ Buffered # <<>>
                   /\ Buffered[Len(Buffered)][2] = current_frame
            /\ streamPc[g] \in {"lock_buffer", "append_locked"} =>
                   /\ current_frame = streamFrame[g]
                   /\ \A i \in 1..Len(emitted) :
                          NumberOf(emitted[i]) < NumberOf(current_frame)
            /\ \A i, j \in 1..Len(Buffered) :
                   i < j => /\ Buffered[i][1] <= Buffered[j][1]
                            /\ NumberOf(Buffered[i][2]) < NumberOf(Buffered[j][2]))
    /\ [][(cret'[1] # cret[1] /\ cret'[1].op = "get_frame") =>
              /\ cret'[1].bytes = current_frame
              /\ (cret[1].op = "get_frame" /\ cret[1].bytes # <<>>) =>
                     NumberOf(cret'[1].bytes) >= NumberOf(cret[1].bytes)]_vars

\* get_frame() has returned the third JPEG while the frame loop is between
\* two frames, and the ring buffer's newest entry holds that JPEG
C35_Witness ==
    /\ cpc[1] = "idle" /\ cret[1].op = "get_frame"
    /\ cret[1].bytes = FrameNo(3)
    /\ \E g \in Gens : stream_thread = g /\ streamPc[g] = "read"
    /\ Buffered[Len(Buffered)][2] = FrameNo(3)
    /\ Len(emitted) = 3


\* the has-detection flags of the processed records, in processing order
ProcessedFlags == [i \in 1..Len(processed) |-> processed[i].flag]

\* the number of TRUE flags at the end of a sequence of flags
TrailingTrue(flags) ==
    Len(flags) - Max({i \in 1..Len(flags) : ~flags[i]} \cup {0})

\* C36: after every processed record the debounce history holds the flags
\* of the last min(n, 5) processed records in processing order, never more
\* than 5, and min(consecutive counter, 5) is the number of true flags at
\* the end of the history.
C36_HistoryMatchesCounter ==
    /\ Len(detection_history) <= HistoryMaxlen
    /\ detection_history = LastN(ProcessedFlags, Min({Len(processed), HistoryMaxlen}))
    /\ Min({consecutive_person_frames, HistoryMaxlen}) = TrailingTrue(detection_history)

\* seven records were processed: the history has dropped the first two,
\* a quiet record lies in it and the counter stands at the run behind it
C36_Witness ==
    /\ Len(processed) = HistoryMaxlen + 2
    /\ detection_history = <<TRUE, FALSE, TRUE, TRUE, TRUE>>
    /\ consecutive_person_frames = 3


\* frames_to_mp4 has returned its metadata
EncodeSucceeded == mp4Pc = "idle" /\ mp4Ret.kind = "dict"

\* C37: when frames_to_mp4 succeeds, the encoder was given the payloads of
\* the input frames in input order (the i-th frame as file number i), the
\* returned frame_count is the number of input frames and the returned
\* duration is the largest integer d with d * fps <= frame_count.
C37_FramesInOrderAndCounted ==
    EncodeSucceeded =>
        /\ Len(ffmpeg.input) = Len(mp4Args.frames)
        /\ \A i \in 1..Len(mp4Args.frames) : ffmpeg.input[i] = mp4Args.frames[i][2]
        /\ ffmpeg.fps = mp4Args.fps
        /\ mp4Ret.frame_count = Len(mp4Args.frames)
        /\ mp4Ret.duration * mp4Args.fps <= mp4Ret.frame_count
        /\ mp4Ret.frame_count < (mp4Ret.duration + 1) * mp4Args.fps

\* three frames, the later one first, encoded at 2 frames per second: the
\* duration is 1
C37_Witness ==
    /\ EncodeSucceeded
    /\ mp4Args.frames = <<<<1, FrameNo(2)>>, <<0, FrameNo(1)>>, <<1, FrameNo(2)>>>>
    /\ mp4Args.fps = 2
    /\ mp4Ret.duration = 1


(***************************************************************************)
(* SpecRace: two threads call start() on one engine; the first of them     *)
(* also calls stop().  The processes write nothing.                        *)
(***************************************************************************)
NextRace ==
    \/ \E c \in Callers : StartBegin(c)
    \/ \E c \in Callers : StartSpawn(c)
    \/ \E c \in Callers : StartFail(c)
    \/ StopBegin(1)
    \/ StopWaitExited(1)
    \/ StopWaitKill(1)
    \/ StopFinish(1)
    \/ \E p \in Gens : ProcOpenFile(p)
    \/ \E p \in Gens : ProcTerminate(p)
    \/ \E g \in Gens : FrameLoopCheck(g)
    \/ \E g \in Gens : FrameLoopEof(g)
    \/ \E g \in Gens : MonitorExit(g)
    \/ \E g \in Gens : MonitorPoll(g)

SpecRace == InitSupervise /\ [][NextRace]_vars

\* C38: however concurrent start() calls interleave, every external
\* process that is alive is the one the engine's handle refers to: the
\* handle is never overwritten while its process is alive, and at most one
\* process is alive at a time.
C38_OneProcessUnderHandle ==
    /\ \A p \in Gens : Spawned(p) => process = p
    /\ Cardinality({p \in Gens : Spawned(p)}) <= 1


\* C39: a start() made after the process has exited on its own, with no
\* stop() in between, goes on to spawn a new process: start() returns
\* without spawning only when the engine's process is alive.
C39_StartAfterExitRespawns ==
    [][(cret'[1] # cret[1] /\ cret'[1] = Ret("start", "already_running"))
          => (running /\ Alive(process))]_vars


\* the record has no CnnOutputTensor field, or its tensor is empty or
\* shorter than the schema's 600 values
TensorMissing(fd) ==
    fd.kind = "notensor" \/ (fd.kind = "dict" /\ fd.len < MinTensorLen)

\* C40: a record without a CnnOutputTensor field, or with an empty or too
\* short tensor, passes through _extract_detections without any effect:
\* the debounce history, the consecutive counter and the published list
\* are what they were, so the record counts neither as a detecting nor as
\* a non-detecting frame.
C40_TensorlessRecordIgnored ==
    [][\A g \in Gens :
          (/\ monPc[g] = "extract"
           /\ pending'[g] # pending[g]
           /\ TensorMissing(LineOf(Head(pending[g]))))
          => /\ detection_history' = detection_history
             /\ consecutive_person_frames' = consecutive_person_frames
             /\ latest_detections' = latest_detections
             /\ heap'[latest_detections'] = heap[latest_detections]
             /\ processed' = processed]_vars

\* a record without a usable tensor came between the second and the third
\* record with a person, and the third was published all the same
C40_Witness ==
    /\ metadata_file.lines = <<"A", "A", "X", "A">>
    /\ TensorMissing(drawn)
    /\ monPc[1] = "poll" /\ last_position[1] = 4
    /\ consecutive_person_frames = min_consecutive_frames
    /\ heap[latest_detections] # <<>>

====
